---- MODULE Spec2Model ----
(***************************************************************************)
(* Vocal Prism engine: the tuning reference kept by pitchUtils, the static *)
(* ratio and band tables, the scale generator, the framework analyzers and *)
(* the aggregator calculatePrism.                                          *)
(*                                                                         *)
(* Numbers.  A JavaScript value is a record [type, kind, num, den]: type   *)
(* is the result of typeof, kind tells a finite number from NaN and the    *)
(* two infinities, and num/den is the value of a finite frequency in       *)
(* millihertz, an exact fraction (f0 * 4 / 3 is [num |-> 4 * f0, den |->   *)
(* 3]).  Values the code rounds are integers in the rounded unit           *)
(* (centihertz for two decimals).  Binary floating point is modelled by    *)
(* exact rational arithmetic; Math.log2 and Math.pow(2, x) are modelled by *)
(* fixed-point tables of 2^(j/24) and 2^(j/12) with six decimals.          *)
(***************************************************************************)
EXTENDS Integers, Sequences, FiniteSets, TLC

VARIABLES currentTuning, A4_FREQ, ret, seen, registry, tables,
          sharedAudioContext, unlockCount, contexts, calls, platform

\* the variables of the audio-unlock module (mobileAudio.js) and of its
\* browser: the contexts it has created, its calls in flight, the platform
audioVars == <<sharedAudioContext, unlockCount, contexts, calls, platform>>

vars == <<currentTuning, A4_FREQ, ret, seen, registry, tables, audioVars>>

(***************************************************************************)
(* Bounds of the model: the integer frequencies offered to calculatePrism  *)
(* run from MinHz to MaxHz (both outside the accepted range 50..1000).     *)
(***************************************************************************)
MinHz == 45

MaxHz == 1005

(***************************************************************************)
(* JavaScript values                                                       *)
(***************************************************************************)
Finite(m) == [type |-> "number", kind |-> "finite", num |-> m, den |-> 1]

Hz(h) == Finite(h * 1000)

NaN == [type |-> "number", kind |-> "NaN", num |-> 0, den |-> 1]

PosInfinity == [type |-> "number", kind |-> "Infinity", num |-> 0, den |-> 1]

NegInfinity == [type |-> "number", kind |-> "-Infinity", num |-> 0, den |-> 1]

\* a value whose typeof is not 'number' (a string such as "165")
NotANumber == [type |-> "string", kind |-> "none", num |-> 0, den |-> 1]

Undefined == "undefined"

IsFinite(x) == x.type = "number" /\ x.kind = "finite"

\* position of a number on the extended real line, NaN excluded
Rank(x) == CASE x.kind = "-Infinity" -> -1
             [] x.kind = "Infinity" -> 1
             [] OTHER -> 0

\* num/den < num'/den' on exact fractions, compared as mixed numbers so
\* that no product leaves 32 bits
FracLess(a, b) ==
    LET qa == a.num \div a.den
        qb == b.num \div b.den
    IN  \/ qa < qb
        \/ qa = qb /\ (a.num % a.den) * b.den < (b.num % b.den) * a.den

FracEq(a, b) == ~FracLess(a, b) /\ ~FracLess(b, a)

\* the JavaScript relational operator a < b on two numbers: false when
\* either side is NaN
JsLess(a, b) ==
    IF a.kind = "NaN" \/ b.kind = "NaN" THEN FALSE
    ELSE IF a.kind = "finite" /\ b.kind = "finite" THEN FracLess(a, b)
    ELSE Rank(a) < Rank(b)

JsGreater(a, b) == JsLess(b, a)

\* a >= b
JsGeq(a, b) ==
    IF a.kind = "NaN" \/ b.kind = "NaN" THEN FALSE
    ELSE IF a.kind = "finite" /\ b.kind = "finite" THEN ~FracLess(a, b)
    ELSE Rank(a) >= Rank(b)

\* x * n / d
Times(x, n, d) ==
    IF x.kind = "finite" THEN [x EXCEPT !.num = @ * n, !.den = @ * d] ELSE x

\* Math.floor(x * 100) / 100 in the place of Math.round
RoundCenti_Floor(x) ==
    IF x.kind = "finite" THEN x.num \div (10 * x.den) ELSE x

\* Math.round(x * 100) / 100: of a finite x the nearest number of
\* centihertz, a tie going up; NaN and the infinities round to themselves
RoundCenti(x) ==
    IF x.kind = "finite" THEN (2 * x.num + 10 * x.den) \div (20 * x.den) ELSE x

Min(S) == CHOOSE x \in S : \A y \in S : x <= y

Max(S) == CHOOSE x \in S : \A y \in S : x >= y

(***************************************************************************)
(* tuning.js: the registry of reference pitches                            *)
(***************************************************************************)
TuningIds == {"A440", "A432", "A415", "A466", "A435", "A444"}

TUNING_STANDARDS ==
    [id \in TuningIds |->
        CASE id = "A440" -> [a4 |-> 440]
          [] id = "A432" -> [a4 |-> 432]
          [] id = "A415" -> [a4 |-> 415]
          [] id = "A466" -> [a4 |-> 466]
          [] id = "A435" -> [a4 |-> 435]
          [] id = "A444" -> [a4 |-> 444]]

\* the ratio of each entry of JUST_INTONATION_RATIOS
JUST_INTONATION_RATIOS ==
    [k \in {"P1", "m2", "M2", "m3", "M3", "P4", "A4", "d5", "P5", "m6", "M6",
            "m7", "M7", "P8"} |->
        CASE k = "P1" -> [ratio |-> <<1, 1>>,   svara |-> "Sa"]
          [] k = "m2" -> [ratio |-> <<16, 15>>, svara |-> "Komal Re"]
          [] k = "M2" -> [ratio |-> <<9, 8>>,   svara |-> "Re"]
          [] k = "m3" -> [ratio |-> <<6, 5>>,   svara |-> "Komal Ga"]
          [] k = "M3" -> [ratio |-> <<5, 4>>,   svara |-> "Ga"]
          [] k = "P4" -> [ratio |-> <<4, 3>>,   svara |-> "Ma"]
          [] k = "A4" -> [ratio |-> <<45, 32>>, svara |-> "Tivra Ma"]
          [] k = "d5" -> [ratio |-> <<64, 45>>, svara |-> "Komal Pa"]
          [] k = "P5" -> [ratio |-> <<3, 2>>,   svara |-> "Pa"]
          [] k = "m6" -> [ratio |-> <<8, 5>>,   svara |-> "Komal Dha"]
          [] k = "M6" -> [ratio |-> <<5, 3>>,   svara |-> "Dha"]
          [] k = "m7" -> [ratio |-> <<9, 5>>,   svara |-> "Komal Ni"]
          [] k = "M7" -> [ratio |-> <<15, 8>>,  svara |-> "Ni"]
          [] k = "P8" -> [ratio |-> <<2, 1>>,   svara |-> "Sa'"]]

SHUDDH_SCALE == <<"P1", "M2", "M3", "P4", "P5", "M6", "M7", "P8">>

\* ids a caller may pass that the registry does not hold
UnregisteredIds == {"A450", ""}

\* keys TUNING_STANDARDS, an object literal, inherits from Object.prototype:
\* TUNING_STANDARDS[key] is a function, which is truthy and has no a4
InheritedKeys == {"constructor", "toString"}

\* the value undefined in the variable A4_FREQ and in an a4 argument, for
\* which the default parameter a4 = A4_FREQ applies again
UndefinedA4 == -1

(***************************************************************************)
(* ratios.js: static tables                                                *)
(***************************************************************************)
\* JUST_INTONATION with the Pythagorean third, sixth and seventh
JUST_INTONATION_Pythagorean ==
    << [svara |-> "Sa",  ratio |-> <<1, 1>>,     name |-> "Unison"],
       [svara |-> "Re",  ratio |-> <<9, 8>>,     name |-> "Major Second"],
       [svara |-> "Ga",  ratio |-> <<81, 64>>,   name |-> "Major Third"],
       [svara |-> "Ma",  ratio |-> <<4, 3>>,     name |-> "Perfect Fourth"],
       [svara |-> "Pa",  ratio |-> <<3, 2>>,     name |-> "Perfect Fifth"],
       [svara |-> "Dha", ratio |-> <<27, 16>>,   name |-> "Major Sixth"],
       [svara |-> "Ni",  ratio |-> <<243, 128>>, name |-> "Major Seventh"],
       [svara |-> "Sa'", ratio |-> <<2, 1>>,     name |-> "Octave"] >>

\* JUST_INTONATION joined with SOLFEGE and DEGREES, in insertion order
JUST_INTONATION ==
    << [svara |-> "Sa",  ratio |-> <<1, 1>>,  name |-> "Unison"],
       [svara |-> "Re",  ratio |-> <<9, 8>>,  name |-> "Major Second"],
       [svara |-> "Ga",  ratio |-> <<5, 4>>,  name |-> "Major Third"],
       [svara |-> "Ma",  ratio |-> <<4, 3>>,  name |-> "Perfect Fourth"],
       [svara |-> "Pa",  ratio |-> <<3, 2>>,  name |-> "Perfect Fifth"],
       [svara |-> "Dha", ratio |-> <<5, 3>>,  name |-> "Major Sixth"],
       [svara |-> "Ni",  ratio |-> <<15, 8>>, name |-> "Major Seventh"],
       [svara |-> "Sa'", ratio |-> <<2, 1>>,  name |-> "Octave"] >>

SOLFEGE ==
    [s \in {"Sa", "Re", "Ga", "Ma", "Pa", "Dha", "Ni", "Sa'"} |->
        CASE s = "Sa" -> "Do" [] s = "Re" -> "Re" [] s = "Ga" -> "Mi"
          [] s = "Ma" -> "Fa" [] s = "Pa" -> "So" [] s = "Dha" -> "La"
          [] s = "Ni" -> "Ti" [] s = "Sa'" -> "Do'"]

DEGREES ==
    [s \in {"Sa", "Re", "Ga", "Ma", "Pa", "Dha", "Ni", "Sa'"} |->
        CASE s = "Sa" -> 1 [] s = "Re" -> 2 [] s = "Ga" -> 3
          [] s = "Ma" -> 4 [] s = "Pa" -> 5 [] s = "Dha" -> 6
          [] s = "Ni" -> 7 [] s = "Sa'" -> 8]

CHAKRAS ==
    << [max |-> Hz(130), name |-> "Root (Muladhara)", note |-> "C"],
       [max |-> Hz(147), name |-> "Sacral (Svadhisthana)", note |-> "D"],
       [max |-> Hz(165), name |-> "Solar Plexus (Manipura)", note |-> "E"],
       [max |-> Hz(175), name |-> "Heart (Anahata)", note |-> "F"],
       [max |-> Hz(196), name |-> "Throat (Vishuddha)", note |-> "G"],
       [max |-> Hz(220), name |-> "Third Eye (Ajna)", note |-> "A"],
       [max |-> PosInfinity, name |-> "Crown (Sahasrara)", note |-> "B"] >>

VOCAL_CATEGORIES ==
    << [min |-> 65,  max |-> 100, category |-> "Bass"],
       [min |-> 100, max |-> 140, category |-> "Baritone"],
       [min |-> 140, max |-> 180, category |-> "Tenor / Low Alto"],
       [min |-> 180, max |-> 220, category |-> "Alto / Mezzo"],
       [min |-> 220, max |-> 280, category |-> "Soprano"],
       [min |-> 280, max |-> 400, category |-> "High Soprano"] >>

\* SAPTAKS with the Madhya band starting one hertz late
SAPTAKS_Gap ==
    << [min |-> 65,  max |-> 131, name |-> "Mandra Saptak"],
       [min |-> 132, max |-> 262, name |-> "Madhya Saptak"],
       [min |-> 262, max |-> 523, name |-> "Taar Saptak"] >>

SAPTAKS ==
    << [min |-> 65,  max |-> 131, name |-> "Mandra Saptak"],
       [min |-> 131, max |-> 262, name |-> "Madhya Saptak"],
       [min |-> 262, max |-> 523, name |-> "Taar Saptak"] >>

SHRUTIS ==
    << [shruti |-> 1,  ratio |-> <<1, 1>>,     svara |-> "Sa",          cents |-> 0],
       [shruti |-> 2,  ratio |-> <<256, 243>>, svara |-> "Komal Re 1",  cents |-> 90],
       [shruti |-> 3,  ratio |-> <<16, 15>>,   svara |-> "Komal Re 2",  cents |-> 112],
       [shruti |-> 4,  ratio |-> <<10, 9>>,    svara |-> "Shuddha Re",  cents |-> 182],
       [shruti |-> 5,  ratio |-> <<9, 8>>,     svara |-> "Re",          cents |-> 204],
       [shruti |-> 6,  ratio |-> <<32, 27>>,   svara |-> "Komal Ga 1",  cents |-> 294],
       [shruti |-> 7,  ratio |-> <<6, 5>>,     svara |-> "Komal Ga 2",  cents |-> 316],
       [shruti |-> 8,  ratio |-> <<5, 4>>,     svara |-> "Shuddha Ga",  cents |-> 386],
       [shruti |-> 9,  ratio |-> <<81, 64>>,   svara |-> "Ga",          cents |-> 408],
       [shruti |-> 10, ratio |-> <<4, 3>>,     svara |-> "Shuddha Ma",  cents |-> 498],
       [shruti |-> 11, ratio |-> <<27, 20>>,   svara |-> "Ma",          cents |-> 520],
       [shruti |-> 12, ratio |-> <<45, 32>>,   svara |-> "Tivra Ma 1",  cents |-> 590],
       [shruti |-> 13, ratio |-> <<729, 512>>, svara |-> "Tivra Ma 2",  cents |-> 612],
       [shruti |-> 14, ratio |-> <<3, 2>>,     svara |-> "Pa",          cents |-> 702],
       [shruti |-> 15, ratio |-> <<128, 81>>,  svara |-> "Komal Dha 1", cents |-> 792],
       [shruti |-> 16, ratio |-> <<8, 5>>,     svara |-> "Komal Dha 2", cents |-> 814],
       [shruti |-> 17, ratio |-> <<5, 3>>,     svara |-> "Shuddha Dha", cents |-> 884],
       [shruti |-> 18, ratio |-> <<27, 16>>,   svara |-> "Dha",         cents |-> 906],
       [shruti |-> 19, ratio |-> <<16, 9>>,    svara |-> "Komal Ni 1",  cents |-> 996],
       [shruti |-> 20, ratio |-> <<9, 5>>,     svara |-> "Komal Ni 2",  cents |-> 1018],
       [shruti |-> 21, ratio |-> <<15, 8>>,    svara |-> "Shuddha Ni",  cents |-> 1088],
       [shruti |-> 22, ratio |-> <<243, 128>>, svara |-> "Ni",          cents |-> 1110],
       [shruti |-> 23, ratio |-> <<2, 1>>,     svara |-> "Sa'",         cents |-> 1200] >>

\* RAGA_SHRUTIS with the positions 20 and 17 of kafi exchanged
RAGA_SHRUTIS_Unordered ==
    [r \in {"bilawal", "kafi", "bhairav", "yaman", "todi"} |->
        CASE r = "bilawal" -> <<1, 5, 8, 10, 14, 17, 21, 23>>
          [] r = "kafi"    -> <<1, 5, 7, 10, 14, 20, 17, 23>>
          [] r = "bhairav" -> <<1, 3, 8, 10, 14, 16, 21, 23>>
          [] r = "yaman"   -> <<1, 5, 8, 12, 14, 17, 21, 23>>
          [] r = "todi"    -> <<1, 3, 7, 12, 14, 16, 21, 23>>]

\* the shrutis array of each raga of RAGA_SHRUTIS
RAGA_SHRUTIS ==
    [r \in {"bilawal", "kafi", "bhairav", "yaman", "todi"} |->
        CASE r = "bilawal" -> <<1, 5, 8, 10, 14, 17, 21, 23>>
          [] r = "kafi"    -> <<1, 5, 7, 10, 14, 17, 20, 23>>
          [] r = "bhairav" -> <<1, 3, 8, 10, 14, 16, 21, 23>>
          [] r = "yaman"   -> <<1, 5, 8, 12, 14, 17, 21, 23>>
          [] r = "todi"    -> <<1, 3, 7, 12, 14, 16, 21, 23>>]

(***************************************************************************)
(* pitchUtils.js: Hz <-> MIDI <-> note name, relative to the reference a4  *)
(***************************************************************************)
A4_MIDI == 69

NOTE_NAMES == <<"C", "C#", "D", "D#", "E", "F", "F#", "G", "G#", "A", "A#", "B">>

\* Math.pow(2, (2 * s - 1) / 24) * 10^6 for s = 0..12: the ratio to A of the
\* frequency half a semitone below the s-th semitone above A
QuarterTone ==
    <<971532, 1029302, 1090508, 1155353, 1224054, 1296840, 1373954,
      1455653, 1542211, 1633915, 1731073, 1834008, 1943064>>

\* Math.pow(2, s / 12) * 10^6 for s = 0..11
SemitoneRatio ==
    <<1000000, 1059463, 1122462, 1189207, 1259921, 1334840, 1414214,
      1498307, 1587401, 1681793, 1781797, 1887749>>

RECURSIVE Pow2(_)
Pow2(n) == IF n <= 0 THEN 1 ELSE 2 * Pow2(n - 1)

\* the JavaScript remainder a % b: the sign of the dividend
JsRem(a, b) == IF a >= 0 THEN a % b ELSE -((-a) % b)

\* the frequency (mHz) half a semitone below semitone s of the octave that
\* starts at a4
LowerEdge(a4, s) == (a4 * QuarterTone[s + 1]) \div 1000

RECURSIVE OctavesBelow(_, _)
OctavesBelow(f, lo) == IF 2 * f >= lo THEN 1 ELSE 1 + OctavesBelow(2 * f, lo)

RECURSIVE OctavesAbove(_, _)
OctavesAbove(f, hi) == IF f < hi THEN 0 ELSE 1 + OctavesAbove(f, 2 * hi)

\* Math.round(freqToMidi(freq, a4)) for a finite freq > 0:
\* 69 + 12 * o + s for the octave o and the semitone s in 0..11 with
\* a4 * 2^o * 2^((2s-1)/24) <= freq < a4 * 2^o * 2^((2s+1)/24)
freqToMidiRounded(freq, a4) ==
    LET f == freq.num \div freq.den
        o == IF f < LowerEdge(a4, 0)
             THEN -OctavesBelow(f, LowerEdge(a4, 0))
             ELSE OctavesAbove(f, LowerEdge(a4, 12))
        s == IF o < 0
             THEN Max({t \in 0..11 : LowerEdge(a4, t) <= f * Pow2(-o)})
             ELSE Max({t \in 0..11 : LowerEdge(a4, t) * Pow2(o) <= f})
    IN  A4_MIDI + 12 * o + s

RECURSIVE GCD(_, _)
GCD(a, b) == IF b = 0 THEN a ELSE GCD(b, a % b)

\* A MIDI number is kept exact as whole + 12 * log2(ratio[1] / ratio[2]);
\* an integer has the ratio 1:1, for which Math.log2 is exactly 0
MidiInt(m) == [whole |-> m, ratio |-> <<1, 1>>]

\* freqToMidi(freq, a4) = A4_MIDI + 12 * Math.log2(freq / a4) for a finite
\* freq > 0, the quotient freq / a4 in lowest terms
freqToMidi(freq, a4) ==
    LET p == freq.num
        q == freq.den * a4 * 1000
        g == GCD(p, q)
    IN  [whole |-> A4_MIDI, ratio |-> <<p \div g, q \div g>>]

\* midiToFreq with the literal 440 in the place of the parameter a4
midiToFreq_Fixed440(midi, a4) ==
    LET k  == midi.whole - A4_MIDI
        o  == k \div 12
        s  == k % 12
        x4 == (440 * SemitoneRatio[s + 1]) \div 100
        base == IF o >= 0 THEN x4 * Pow2(o) ELSE x4 \div Pow2(-o)
        g  == GCD(base, midi.ratio[2])
    IN  [type |-> "number", kind |-> "finite",
         num |-> (base \div g) * midi.ratio[1],
         den |-> 10 * (midi.ratio[2] \div g)]

\* midiToFreq(midi, a4) = a4 * Math.pow(2, (midi - A4_MIDI) / 12): the
\* power of two of the whole semitones from the table, in tenths of a
\* millihertz, times the ratio of the MIDI number
midiToFreq(midi, a4) ==
    LET k  == midi.whole - A4_MIDI
        o  == k \div 12
        s  == k % 12
        x4 == (a4 * SemitoneRatio[s + 1]) \div 100
        base == IF o >= 0 THEN x4 * Pow2(o) ELSE x4 \div Pow2(-o)
        g  == GCD(base, midi.ratio[2])
    IN  [type |-> "number", kind |-> "finite",
         num |-> (base \div g) * midi.ratio[1],
         den |-> 10 * (midi.ratio[2] \div g)]

\* ((midiRounded % 12) + 12) % 12
NoteIndex(midiRounded) == JsRem(JsRem(midiRounded, 12) + 12, 12)

\* Math.trunc in the place of Math.floor
Octave_Truncates(midiRounded) ==
    (IF midiRounded >= 0 THEN midiRounded \div 12
     ELSE -((-midiRounded) \div 12)) - 1

\* Math.floor(midiRounded / 12) - 1
Octave(midiRounded) == (midiRounded \div 12) - 1

\* freq / undefined is NaN
freqToNoteName(freq, a4) ==
    IF freq.kind = "NaN" \/ a4 = UndefinedA4 THEN [name |-> Undefined, octave |-> "NaN"]
    ELSE LET midiRounded == freqToMidiRounded(freq, a4)
         IN  [name |-> NOTE_NAMES[NoteIndex(midiRounded) + 1],
              octave |-> Octave(midiRounded)]

freqToNoteNameOnly(freq, a4) ==
    IF freq.kind = "NaN" \/ a4 = UndefinedA4 THEN Undefined
    ELSE LET midiRounded == freqToMidiRounded(freq, a4)
         IN  NOTE_NAMES[NoteIndex(midiRounded) + 1]

\* freqToNearestStandard with Math.floor in the place of Math.round
freqToNearestStandard_Floor(freq, a4) ==
    IF freq.kind = "NaN" \/ a4 = UndefinedA4 THEN NaN
    ELSE LET n == freqToMidiRounded(freq, a4)
             up == midiToFreq(MidiInt(n), a4)
         IN  IF FracLess(freq, up) THEN midiToFreq(MidiInt(n - 1), a4) ELSE up

freqToNearestStandard(freq, a4) ==
    IF freq.kind = "NaN" \/ a4 = UndefinedA4 THEN NaN
    ELSE midiToFreq(MidiInt(freqToMidiRounded(freq, a4)), a4)

\* tuning.js has its own freqToMidi and midiToFreq, with the literal 69
tuning_freqToMidi(freq, a4) ==
    LET p == freq.num
        q == freq.den * a4 * 1000
        g == GCD(p, q)
    IN  [whole |-> 69, ratio |-> <<p \div g, q \div g>>]

tuning_midiToFreq(midi, a4) ==
    LET k  == midi.whole - 69
        o  == k \div 12
        s  == k % 12
        x4 == (a4 * SemitoneRatio[s + 1]) \div 100
        base == IF o >= 0 THEN x4 * Pow2(o) ELSE x4 \div Pow2(-o)
        g  == GCD(base, midi.ratio[2])
    IN  [type |-> "number", kind |-> "finite",
         num |-> (base \div g) * midi.ratio[1],
         den |-> 10 * (midi.ratio[2] \div g)]

\* tuning.js has its own freqToNoteName, with its own copy of the note
\* names and the literals 69 and 440 (the caller passes a4 or 440)
tuning_freqToNoteName(freq, a4) ==
    IF freq.kind = "NaN" THEN [name |-> Undefined, octave |-> "NaN"]
    ELSE LET midiRounded == freqToMidiRounded(freq, a4)
         IN  [name |-> NOTE_NAMES[NoteIndex(midiRounded) + 1],
              octave |-> Octave(midiRounded)]

\* floor(r * 10^k / d) for 0 <= r < d, one decimal digit at a time
RECURSIVE DecimalDigits(_, _, _, _)
DecimalDigits(r, d, k, acc) ==
    IF k = 0 THEN acc
    ELSE DecimalDigits((r * 10) % d, d, k - 1, acc * 10 + ((r * 10) \div d))

Abs(n) == IF n < 0 THEN -n ELSE n

\* centsDifference(freq1, freq2) = 1200 * Math.log2(freq1 / freq2), a
\* number of cents with denominator 1000, for two positive frequencies less
\* than a semitone apart: with z = (freq1 - freq2) / (freq1 + freq2),
\* 1200 * log2(freq1 / freq2) = (2400 / ln 2) * (z + z^3 / 3 + ...).
\* NaN when either frequency is NaN.
centsDifference(freq1, freq2) ==
    IF freq1.kind = "NaN" \/ freq2.kind = "NaN" THEN NaN
    ELSE
    LET t1 == (freq1.num * 10) \div freq1.den
        t2 == (freq2.num * 10) \div freq2.den
        z7 == DecimalDigits(Abs(t1 - t2), t1 + t2, 7, 0)
        z4 == z7 \div 1000
        mc == ((z7 * 3462) \div 10000) + ((z7 * 4681) \div 100000000)
              + ((z4 * z4 * z4 * 115) \div 100000000)
    IN  [type |-> "number", kind |-> "finite",
         num |-> IF t1 >= t2 THEN mc ELSE -mc, den |-> 1000]

\* Math.round(cents): the nearest integer, a tie going up; NaN rounds to NaN
RoundCents(cents) ==
    IF cents.kind = "finite"
    THEN (2 * cents.num + cents.den) \div (2 * cents.den)
    ELSE cents

\* formatCents(cents): the sign and the magnitude of the rounded value
\* ("+2", "-14"), the sign "+-" standing for the text of a rounded zero;
\* NaN prints without a sign
formatCents(cents) ==
    IF cents.kind = "NaN" THEN [sign |-> "", abs |-> NaN]
    ELSE
    LET rounded == RoundCents(cents)
    IN  IF Abs(rounded) < 1 THEN [sign |-> "+-", abs |-> 0]
        ELSE [sign |-> IF rounded > 0 THEN "+" ELSE "-", abs |-> Abs(rounded)]

\* hz.toFixed(k) of a finite hz >= 0: the value in units of 10^-k Hz,
\* rounded to the nearest, a tie going up
ToFixed(hz, k) ==
    LET unit == hz.den * (CASE k = 0 -> 1000 [] k = 1 -> 100 [] k = 2 -> 10)
    IN  (2 * hz.num + unit) \div (2 * unit)

\* formatHz choosing the number of decimals from the value it prints
formatHz_ByRounded(hz) ==
    IF hz.kind = "NaN" THEN [decimals |-> 2, digits |-> NaN]
    ELSE IF ToFixed(hz, 2) >= 100000 THEN [decimals |-> 0, digits |-> ToFixed(hz, 0)]
    ELSE IF ToFixed(hz, 2) >= 10000 THEN [decimals |-> 1, digits |-> ToFixed(hz, 1)]
    ELSE [decimals |-> 2, digits |-> ToFixed(hz, 2)]

\* formatHz(hz): the number of decimals and the digits printed
formatHz(hz) ==
    IF JsGeq(hz, Hz(1000)) THEN [decimals |-> 0, digits |-> ToFixed(hz, 0)]
    ELSE IF JsGeq(hz, Hz(100)) THEN [decimals |-> 1, digits |-> ToFixed(hz, 1)]
    ELSE IF hz.kind = "NaN" THEN [decimals |-> 2, digits |-> NaN]
    ELSE [decimals |-> 2, digits |-> ToFixed(hz, 2)]

\* ratioToCents(ratio) = 1200 * Math.log2(ratio) of the ratio n / d, a
\* number of cents with denominator 1000: the whole semitones of the ratio
\* from the table (the ratio scaled to 10^6) and the rest from the series
\* of centsDifference
ratioToCents(n, d) ==
    LET g == GCD(1000000, d)
        scaled == [type |-> "number", kind |-> "finite",
                   num |-> n * (1000000 \div g), den |-> d \div g]
        semitones == freqToMidiRounded(scaled, 1000) - A4_MIDI
        rest == centsDifference(scaled,
                                midiToFreq(MidiInt(semitones + A4_MIDI), 1000))
    IN  [type |-> "number", kind |-> "finite",
         num |-> semitones * 100000 + rest.num, den |-> 1000]

\* Math.abs(x - y) < tol for fractions x, y of one denominator and a
\* tolerance tol = tolNum / tolDen
AbsDiffLess(x, y, tolNum, tolDen) ==
    Abs(x.num - y.num) * tolDen < tolNum * x.den

\* verifyMath() with the reference pitch of checks 1 and 2 as a parameter;
\* a MIDI number is compared in thousandths of a cent, 100000 a semitone
verifyMathWith(a4) ==
    LET midi440 == tuning_freqToMidi(Hz(440), a4)
        midi440mc == [num |-> midi440.whole * 100000
                                + ratioToCents(midi440.ratio[1],
                                               midi440.ratio[2]).num,
                      den |-> 100000]
        hz69 == tuning_midiToFreq(MidiInt(69), a4)
        octaveCents == ratioToCents(2, 1)
        fifthCents == ratioToCents(3, 2)
        thirdCents == ratioToCents(5, 4)
        etThirdCents == ratioToCents(SemitoneRatio[5], 1000000)
        syntonicComma == [num |-> ratioToCents(81, 64).num
                                    - ratioToCents(5, 4).num,
                          den |-> 1000]
        ratio432over240 == [num |-> 432 * 5, den |-> 240 * 5]
        f0For432AsMajor7th == [num |-> 432 * 8 * 10, den |-> 15 * 10]
    IN  << [test |-> "A4 (440 Hz) -> MIDI 69",
            pass |-> AbsDiffLess(midi440mc, [num |-> 6900000, den |-> 100000],
                                 1, 10000)],
           [test |-> "MIDI 69 -> 440 Hz",
            pass |-> AbsDiffLess(hz69, [num |-> 440000 * hz69.den,
                                        den |-> hz69.den], 1000, 10000)],
           [test |-> "Octave (2:1) -> 1200 cents",
            pass |-> AbsDiffLess(octaveCents, [num |-> 1200000, den |-> 1000],
                                 1, 10000)],
           [test |-> "Perfect 5th (3:2) -> 701.96 cents",
            pass |-> AbsDiffLess(fifthCents, [num |-> 701960, den |-> 1000],
                                 1, 100)],
           [test |-> "Just Major 3rd (5:4) -> 386.31 cents",
            pass |-> AbsDiffLess(thirdCents, [num |-> 386310, den |-> 1000],
                                 1, 100)],
           [test |-> "ET Major 3rd -> 400 cents",
            pass |-> AbsDiffLess(etThirdCents, [num |-> 400000, den |-> 1000],
                                 1, 10000)],
           [test |-> "Syntonic comma -> 21.51 cents",
            pass |-> AbsDiffLess(syntonicComma, [num |-> 21510, den |-> 1000],
                                 1, 100)],
           [test |-> "432/240 = 1.8 = 9/5 (minor 7th)",
            pass |-> AbsDiffLess(ratio432over240,
                                 [num |-> 9 * 240, den |-> 5 * 240], 1, 10000)],
           [test |-> "f0 for 432 as Ni (15/8)",
            pass |-> AbsDiffLess(f0For432AsMajor7th,
                                 [num |-> 2304 * 15, den |-> 150], 1, 100)] >>

\* verifyMath() with the current A4_FREQ in the place of the literal 440
verifyMath_CurrentA4 == verifyMathWith(A4_FREQ)

\* verifyMath()
verifyMath == verifyMathWith(440)

(***************************************************************************)
(* prism.js: the scale generator                                           *)
(***************************************************************************)
\* Array.prototype.find: the first of the indexes whose element satisfies the
\* callback (hits), or 0 when there is none (find returns undefined)
FindFirst(hits) ==
    IF hits = {} THEN 0 ELSE Min(hits)

\* the loop body with the ratio taken upside down
scaleDegree_Inverted(f0, data, a4) ==
    LET hz == Times(f0, data.ratio[2], data.ratio[1])
        nearestStd == freqToNearestStandard(hz, a4)
        cents == centsDifference(hz, nearestStd)
    IN  [degree |-> DEGREES[data.svara],
         svara |-> data.svara,
         solfege |-> SOLFEGE[data.svara],
         hz |-> RoundCenti(hz),
         hzFormatted |-> formatHz(hz),
         ratio |-> data.ratio,
         intervalName |-> data.name,
         nearestPitch |-> freqToNoteName(hz, a4),
         nearestPitchHz |-> RoundCenti(nearestStd),
         cents |-> RoundCents(cents),
         centsFormatted |-> formatCents(cents)]

scaleDegree(f0, data, a4) ==
    LET hz == Times(f0, data.ratio[1], data.ratio[2])
        nearestStd == freqToNearestStandard(hz, a4)
        cents == centsDifference(hz, nearestStd)
    IN  [degree |-> DEGREES[data.svara],
         svara |-> data.svara,
         solfege |-> SOLFEGE[data.svara],
         hz |-> RoundCenti(hz),
         hzFormatted |-> formatHz(hz),
         ratio |-> data.ratio,
         intervalName |-> data.name,
         nearestPitch |-> freqToNoteName(hz, a4),
         nearestPitchHz |-> RoundCenti(nearestStd),
         cents |-> RoundCents(cents),
         centsFormatted |-> formatCents(cents)]

generateScale(f0, a4) ==
    [i \in DOMAIN JUST_INTONATION |-> scaleDegree(f0, JUST_INTONATION[i], a4)]

(***************************************************************************)
(* frameworks/vedic.js                                                     *)
(***************************************************************************)
getSaptak(f0) ==
    LET i == FindFirst({k \in DOMAIN SAPTAKS :
                 JsGeq(f0, Hz(SAPTAKS[k].min)) /\ JsLess(f0, Hz(SAPTAKS[k].max))})
        saptak == IF i # 0 THEN SAPTAKS[i] ELSE SAPTAKS[2]
    IN  [name |-> saptak.name, min |-> saptak.min, max |-> saptak.max]

getChakraAssociation(f0) ==
    LET i == FindFirst({k \in DOMAIN CHAKRAS : JsLess(f0, CHAKRAS[k].max)})
    IN  IF i # 0 THEN CHAKRAS[i] ELSE CHAKRAS[Len(CHAKRAS)]

\* the spread copies the properties of a SHRUTIS entry: ratio is the
\* entry's own array (its content is tables.SHRUTIS_ratio[i]), and hz is
\* f0 times the entry's decimal, the number the literal's ratio stands for
generateShrutiScale(f0) ==
    [i \in DOMAIN SHRUTIS |->
        [shruti |-> SHRUTIS[i].shruti,
         ratio |-> tables.SHRUTIS_ratio[i],
         svara |-> SHRUTIS[i].svara,
         cents |-> SHRUTIS[i].cents,
         hz |-> Times(f0, SHRUTIS[i].ratio[1], SHRUTIS[i].ratio[2]),
         hzFormatted |->
             formatHz(Times(f0, SHRUTIS[i].ratio[1], SHRUTIS[i].ratio[2]))]]

analyzeVedic(f0, scale) ==
    LET saptak == getSaptak(f0)
        chakra == getChakraAssociation(f0)
    IN  [saptak |-> [name |-> saptak.name,
                     range |-> <<saptak.min, saptak.max>>,
                     \* "Your f0 Hz falls within name (min-max Hz)"
                     yourPosition |-> [f0 |-> f0, within |-> saptak.name,
                                       range |-> <<saptak.min, saptak.max>>]],
         chakra |-> [name |-> chakra.name, note |-> chakra.note],
         floatingSa |-> f0,
         \* ragas is the RAGA_SHRUTIS object itself
         shruti |-> [scale |-> generateShrutiScale(f0),
                     ragas |-> tables.RAGA_SHRUTIS]]

(***************************************************************************)
(* frameworks/gregorian.js                                                 *)
(***************************************************************************)
MODES ==
    [n \in {"C", "D", "E", "F", "G", "A", "B"} |->
        CASE n = "C" -> [mode |-> "Ionian (Major)", character |-> "Simple, direct"]
          [] n = "D" -> [mode |-> "Dorian", character |-> "Serious, balanced"]
          [] n = "E" -> [mode |-> "Phrygian", character |-> "Mystic, introspective"]
          [] n = "F" -> [mode |-> "Lydian", character |-> "Bright, joyful"]
          [] n = "G" -> [mode |-> "Mixolydian", character |-> "Uniting, moderate"]
          [] n = "A" -> [mode |-> "Aeolian (Natural Minor)",
                         character |-> "Melancholic, serious"]
          [] n = "B" -> [mode |-> "Locrian (Theoretical)",
                         character |-> "Unstable, tense"]]

TypeError == [throws |-> "TypeError"]

\* noteName.replace(/[#b]/g, ''): the letter of a pitch-class name
StripAccidentals(noteName) ==
    CASE noteName \in {"C", "C#"} -> "C"
      [] noteName \in {"D", "D#"} -> "D"
      [] noteName = "E" -> "E"
      [] noteName \in {"F", "F#"} -> "F"
      [] noteName \in {"G", "G#"} -> "G"
      [] noteName \in {"A", "A#"} -> "A"
      [] noteName = "B" -> "B"

\* undefined has no replace method: the call throws a TypeError
getModalCharacter(noteName) ==
    IF noteName = Undefined THEN TypeError
    ELSE LET baseNote == StripAccidentals(noteName)
         IN  IF baseNote \in DOMAIN MODES THEN MODES[baseNote] ELSE MODES["C"]

analyzeGregorian(f0, nearestPitch, a4) ==
    LET noteName == freqToNoteNameOnly(f0, a4)
        modal == getModalCharacter(noteName)
        fifth == Times(f0, 3, 2)
        fourth == Times(f0, 4, 3)
    IN  IF modal = TypeError THEN TypeError
        ELSE [mode |-> [name |-> modal.mode, character |-> modal.character],
              organum |->
                 [voxPrincipalis |-> [hz |-> f0, hzFormatted |-> formatHz(f0)],
                  parallelFifth |-> [hz |-> fifth, hzFormatted |-> formatHz(fifth),
                                     ratio |-> <<3, 2>>],
                  parallelFourth |-> [hz |-> fourth, hzFormatted |-> formatHz(fourth),
                                      ratio |-> <<4, 3>>]]]

(***************************************************************************)
(* frameworks/western.js                                                   *)
(***************************************************************************)
KeyNames ==
    {"C", "G", "D", "A", "E", "B", "F#", "C#", "F", "Bb", "Eb", "Ab", "Db", "Gb"}

KEY_SIGNATURES ==
    [k \in KeyNames |->
        CASE k = "C"  -> [sharps |-> 0, flats |-> 0]
          [] k = "G"  -> [sharps |-> 1, flats |-> 0]
          [] k = "D"  -> [sharps |-> 2, flats |-> 0]
          [] k = "A"  -> [sharps |-> 3, flats |-> 0]
          [] k = "E"  -> [sharps |-> 4, flats |-> 0]
          [] k = "B"  -> [sharps |-> 5, flats |-> 0]
          [] k = "F#" -> [sharps |-> 6, flats |-> 0]
          [] k = "C#" -> [sharps |-> 7, flats |-> 0]
          [] k = "F"  -> [sharps |-> 0, flats |-> 1]
          [] k = "Bb" -> [sharps |-> 0, flats |-> 2]
          [] k = "Eb" -> [sharps |-> 0, flats |-> 3]
          [] k = "Ab" -> [sharps |-> 0, flats |-> 4]
          [] k = "Db" -> [sharps |-> 0, flats |-> 5]
          [] k = "Gb" -> [sharps |-> 0, flats |-> 6]]

\* noteName.replace(/[0-9]/g, '') leaves a pitch-class name as it is
getKeySignature(noteName) ==
    IF noteName = Undefined THEN TypeError
    ELSE IF noteName \in DOMAIN KEY_SIGNATURES THEN KEY_SIGNATURES[noteName]
    ELSE KEY_SIGNATURES["C"]

getVocalCategory(f0) ==
    LET i == FindFirst({k \in DOMAIN VOCAL_CATEGORIES :
                 JsGeq(f0, Hz(VOCAL_CATEGORIES[k].min))
                 /\ JsLess(f0, Hz(VOCAL_CATEGORIES[k].max))})
        category == IF i # 0 THEN VOCAL_CATEGORIES[i] ELSE VOCAL_CATEGORIES[3]
        span == (category.max - category.min) * 1000 * f0.den
        above == (f0.num - category.min * 1000 * f0.den) * 100
    IN  [category |-> category.category,
         min |-> category.min,
         max |-> category.max,
         positionInRange |-> (2 * above + span) \div (2 * span)]

analyzeWestern(f0, nearestPitch, a4) ==
    LET noteName == freqToNoteNameOnly(f0, a4)
        keySig == getKeySignature(noteName)
        vocal == getVocalCategory(f0)
        fourthHz == Times(f0, 4, 3)
        fifthHz == Times(f0, 3, 2)
    IN  IF keySig = TypeError THEN TypeError
        ELSE [keySignature |-> [key |-> noteName, sharps |-> keySig.sharps,
                                flats |-> keySig.flats],
              vocalCategory |-> [category |-> vocal.category,
                                 range |-> <<vocal.min, vocal.max>>,
                                 positionInRange |-> vocal.positionInRange],
              I_IV_V |->
                 [I |-> [note |-> noteName, hz |-> f0, hzFormatted |-> formatHz(f0)],
                  IV |-> [note |-> freqToNoteNameOnly(fourthHz, a4), hz |-> fourthHz,
                          hzFormatted |-> formatHz(fourthHz)],
                  V |-> [note |-> freqToNoteNameOnly(fifthHz, a4), hz |-> fifthHz,
                         hzFormatted |-> formatHz(fifthHz)]]]

(***************************************************************************)
(* frameworks/pythagorean.js                                               *)
(***************************************************************************)
CIRCLE_OF_FIFTHS ==
    <<"C", "G", "D", "A", "E", "B", "F#", "Db", "Ab", "Eb", "Bb", "F">>

\* Array.prototype.indexOf, zero-based, -1 when absent
IndexOf(seq, v) ==
    LET hits == {i \in DOMAIN seq : seq[i] = v}
    IN  IF hits = {} THEN -1 ELSE Min(hits) - 1

Includes(seq, v) == \E i \in DOMAIN seq : seq[i] = v

RECURSIVE Pow(_, _)
Pow(b, n) == IF n = 0 THEN 1 ELSE b * Pow(b, n - 1)

\* PYTHAGOREAN_COMMA of tuning.js, the cents in hundredths
PYTHAGOREAN_COMMA == [ratio |-> <<531441, 524288>>, cents |-> 2346]

\* getPythagoreanComma rounding the cents to one decimal
getPythagoreanComma_OneDecimal ==
    LET twelveFifths == <<Pow(3, 12), Pow(2, 12)>>
        sevenOctaves == Pow(2, 7)
        commaCents == centsDifference(Finite(twelveFifths[1]),
                                      Finite(twelveFifths[2] * sevenOctaves))
    IN  [ratio |-> <<531441, 524288>>,
         cents |-> 10 * ((commaCents.num + 50) \div 100)]

\* getPythagoreanComma(): the ratio is the text "531441:524288"; the cents
\* are 1200 * log2((3/2)^12 / 2^7) rounded to two decimals, in hundredths
getPythagoreanComma ==
    LET twelveFifths == <<Pow(3, 12), Pow(2, 12)>>
        sevenOctaves == Pow(2, 7)
        commaCents == centsDifference(Finite(twelveFifths[1]),
                                      Finite(twelveFifths[2] * sevenOctaves))
    IN  [ratio |-> <<531441, 524288>>,
         cents |-> (commaCents.num + 5) \div 10]

getCircleOfFifthsPosition(f0, a4) ==
    LET noteName == freqToNoteNameOnly(f0, a4)
        mappedNote == CASE noteName = "C#" -> "Db"
                        [] noteName = "D#" -> "Eb"
                        [] noteName = "F#" -> "F#"
                        [] noteName = "G#" -> "Ab"
                        [] noteName = "A#" -> "Bb"
                        [] OTHER -> noteName
        position == IndexOf(CIRCLE_OF_FIFTHS, mappedNote)
        sharps == <<"G", "D", "A", "E", "B", "F#", "C#">>
        flats == <<"F", "Bb", "Eb", "Ab", "Db", "Gb">>
        isSharp == Includes(sharps, noteName) \/ Includes(sharps, mappedNote)
        isFlat == Includes(flats, noteName) \/ Includes(flats, mappedNote)
    IN  [note |-> noteName,
         position |-> IF position >= 0 THEN position ELSE 0,
         accidentals |->
             IF isSharp
             THEN (IF IndexOf(sharps, noteName) # -1
                   THEN IndexOf(sharps, noteName) + 1
                   ELSE IndexOf(sharps, mappedNote) + 1)
             ELSE IF isFlat
             THEN (IF IndexOf(flats, noteName) # -1
                   THEN IndexOf(flats, noteName) + 1
                   ELSE IndexOf(flats, mappedNote) + 1)
             ELSE 0,
         accidentalType |->
             IF isSharp THEN "sharps" ELSE IF isFlat THEN "flats" ELSE "none"]

analyzePythagorean(f0, a4) ==
    LET fifth == Times(f0, 3, 2)
        fourth == Times(f0, 4, 3)
        octave == Times(f0, 2, 1)
    IN  [circlePosition |-> getCircleOfFifthsPosition(f0, a4),
         comma |-> getPythagoreanComma,
         intervals |->
            [unison |-> [hz |-> f0, hzFormatted |-> formatHz(f0), ratio |-> <<1, 1>>],
             fourth |-> [hz |-> fourth, hzFormatted |-> formatHz(fourth),
                         ratio |-> <<4, 3>>],
             fifth |-> [hz |-> fifth, hzFormatted |-> formatHz(fifth),
                        ratio |-> <<3, 2>>],
             octave |-> [hz |-> octave, hzFormatted |-> formatHz(octave),
                         ratio |-> <<2, 1>>]]]

(***************************************************************************)
(* frameworks/tibetan.js                                                   *)
(***************************************************************************)
getBowlEquivalent(f0) ==
    IF JsLess(f0, Hz(150)) THEN "Large"
    ELSE IF JsLess(f0, Hz(250)) THEN "Medium"
    ELSE IF JsLess(f0, Hz(400)) THEN "Small"
    ELSE "Very Small"

\* the deviation note of intervalNames, null where the entry has none
HarmonicNote(n) ==
    CASE n = 7  -> "~31c flat of 12-TET"
      [] n = 11 -> "~49c sharp of 12-TET"
      [] n = 13 -> "~41c sharp of 12-TET"
      [] OTHER  -> "null"

OvertoneCount == 16

getOvertones(f0, a4) ==
    [n \in 1..OvertoneCount |->
        [harmonic |-> n,
         hz |-> Times(f0, n, 1),
         hzFormatted |-> formatHz(Times(f0, n, 1)),
         noteName |-> freqToNoteName(Times(f0, n, 1), a4),
         inFirstOctave |-> (n = 1),
         note |-> HarmonicNote(n)]]

analyzeTibetan(f0, a4) ==
    [bowlEquivalent |-> getBowlEquivalent(f0),
     overtones |-> getOvertones(f0, a4)]

(***************************************************************************)
(* frameworks/neuroscience.js                                              *)
(***************************************************************************)
\* f0 + d for a whole number d of Hz
PlusHz(f0, d) ==
    IF f0.kind = "finite" THEN [f0 EXCEPT !.num = @ + d * 1000 * f0.den] ELSE f0

getBrainwaveMap(f0) ==
    [delta |-> [beatRange |-> <<"0.5", "4">>,
                singRange |-> << <<formatHz(PlusHz(f0, -4)), formatHz(PlusHz(f0, 4))>> >>],
     theta |-> [beatRange |-> <<"4", "8">>,
                singRange |-> << <<formatHz(PlusHz(f0, -8)), formatHz(PlusHz(f0, -4))>>,
                                 <<formatHz(PlusHz(f0, 4)), formatHz(PlusHz(f0, 8))>> >>],
     alpha |-> [beatRange |-> <<"8", "12">>,
                singRange |-> << <<formatHz(PlusHz(f0, -12)), formatHz(PlusHz(f0, -8))>>,
                                 <<formatHz(PlusHz(f0, 8)), formatHz(PlusHz(f0, 12))>> >>],
     beta  |-> [beatRange |-> <<"12", "30">>,
                singRange |-> << <<formatHz(PlusHz(f0, -30)), formatHz(PlusHz(f0, -12))>>,
                                 <<formatHz(PlusHz(f0, 12)), formatHz(PlusHz(f0, 30))>> >>],
     gamma |-> [beatRange |-> <<"30", "+">>,
                \* "Below f0 - 30 Hz or above f0 + 30 Hz"
                singRange |-> << <<formatHz(PlusHz(f0, -30))>>,
                                 <<formatHz(PlusHz(f0, 30))>> >>]]

\* BRAINWAVE_STATES of ratios.js: the beat range of each band, in mHz
BRAINWAVE_STATES ==
    [delta |-> [range |-> <<500, 4000>>],
     theta |-> [range |-> <<4000, 8000>>],
     alpha |-> [range |-> <<8000, 12000>>],
     beta  |-> [range |-> <<12000, 30000>>],
     gamma |-> [range |-> <<30000, 100000>>]]

\* Math.abs
JsAbs(x) == IF x.kind = "finite" THEN [x EXCEPT !.num = Abs(@)]
            ELSE IF x.kind = "-Infinity" THEN PosInfinity ELSE x

\* getBrainwaveState(beatHz): the key of the band returned
getBrainwaveState(beatHz) ==
    LET absBeat == JsAbs(beatHz)
    IN  IF JsLess(absBeat, Finite(500)) THEN "Unison"
        ELSE IF JsLess(absBeat, Hz(4)) THEN "delta"
        ELSE IF JsLess(absBeat, Hz(8)) THEN "theta"
        ELSE IF JsLess(absBeat, Hz(12)) THEN "alpha"
        ELSE IF JsLess(absBeat, Hz(30)) THEN "beta"
        ELSE "gamma"

analyzeNeuroscience(f0) ==
    [brainwaveMap |-> getBrainwaveMap(f0),
     tryThis |-> formatHz(f0)]

(***************************************************************************)
(* prism.js: the aggregator                                                *)
(***************************************************************************)
DomainError == "f0 must be a number between 50 and 1000 Hz"

\* the steps of calculatePrism after the validation, in program order
Stages ==
    <<"input", "scale", "pythagorean", "vedic", "gregorian", "western",
      "tibetan", "neuroscience", "narrative">>

generateNarrative(input, frameworks) ==
    [short |-> [category |-> frameworks.western.vocalCategory.category,
                f0 |-> input.f0,
                nearestPitch |-> input.nearestPitch,
                mode |-> frameworks.gregorian.mode.name],
     medium |-> [f0 |-> input.f0,
                 nearestPitch |-> input.nearestPitch,
                 centsFormatted |-> input.centsFormatted,
                 saptak |-> frameworks.vedic.saptak.name,
                 mode |-> frameworks.gregorian.mode.name,
                 character |-> frameworks.gregorian.mode.character,
                 key |-> frameworks.western.keySignature.key]]

\* typeof f0 !== 'number' || f0 < 50 || f0 > 1000
Rejected(f0) ==
    \/ f0.type # "number"
    \/ JsLess(f0, Hz(50))
    \/ JsGreater(f0, Hz(1000))

\* calculatePrism(f0) with the module's A4_FREQ equal to a4.  The outcome is
\* a throw or a return; completed lists the stages that had finished when
\* the call ended, and work holds what they had computed when a later stage
\* threw.  The stages before analyzeGregorian use only arithmetic,
\* comparisons, array lookups and toFixed, none of which throws on NaN; the
\* timestamp field generated is left out.
calculatePrism(f0, a4) ==
    IF Rejected(f0)
    THEN [outcome |-> "throw", error |-> DomainError, completed |-> <<>>]
    ELSE
    LET nearestPitch == freqToNoteName(f0, a4)
        nearestPitchHz == freqToNearestStandard(f0, a4)
        cents == centsDifference(f0, nearestPitchHz)
        input == [f0 |-> f0,
                  f0Formatted |-> formatHz(f0),
                  nearestPitch |-> nearestPitch,
                  nearestPitchHz |-> RoundCenti(nearestPitchHz),
                  cents |-> RoundCents(cents),
                  centsFormatted |-> formatCents(cents)]
        scale == generateScale(f0, a4)
        gregorian == analyzeGregorian(f0, nearestPitch, a4)
        western == analyzeWestern(f0, nearestPitch, a4)
        frameworks == [pythagorean |-> analyzePythagorean(f0, a4),
                       vedic |-> analyzeVedic(f0, scale),
                       gregorian |-> gregorian,
                       western |-> western,
                       tibetan |-> analyzeTibetan(f0, a4),
                       neuroscience |-> analyzeNeuroscience(f0)]
    IN  IF gregorian = TypeError
        THEN [outcome |-> "throw", error |-> "TypeError",
              completed |-> SubSeq(Stages, 1, 4),
              work |-> [input |-> input, scale |-> scale,
                        pythagorean |-> frameworks.pythagorean,
                        vedic |-> frameworks.vedic]]
        ELSE IF western = TypeError
        THEN [outcome |-> "throw", error |-> "TypeError",
              completed |-> SubSeq(Stages, 1, 5),
              work |-> [input |-> input, scale |-> scale,
                        pythagorean |-> frameworks.pythagorean,
                        vedic |-> frameworks.vedic,
                        gregorian |-> gregorian]]
        ELSE [outcome |-> "return",
              completed |-> Stages,
              value |-> [input |-> input,
                         scale |-> scale,
                         frameworks |-> frameworks,
                         narrative |-> generateNarrative(input, frameworks)]]

(***************************************************************************)
(* State: the module variables of pitchUtils, the outcome of the call in   *)
(* progress until its caller takes it (ret), and one earlier outcome the   *)
(* caller has kept (seen)                                                  *)
(***************************************************************************)
NoCall == [op |-> "none"]

\* frequencies next to which fractional inputs are offered, and the
\* fractions (mHz)
FracHz == {49, 50, 64, 99, 165, 261, 399, 522, 999, 1000}

FracMillis == {1, 6, 500, 555, 999}

F0Millis ==
    {h * 1000 : h \in MinHz..MaxHz}
        \cup {h * 1000 + m : h \in FracHz, m \in FracMillis}
        \cup {-440000, 0}

Inputs ==
    {Finite(m) : m \in F0Millis} \cup {NaN, PosInfinity, NegInfinity, NotANumber}

\* the inputs of the specification that keeps an earlier outcome
PairInputs == {Hz(49), Hz(100), Hz(220), Finite(165500), Hz(1000), NaN}

\* sharedAudioContext = null in the audio-unlock module
NoContext == 0

\* the modules of the engine as loaded
InitEngine ==
    /\ currentTuning = "A440"
    /\ A4_FREQ = 440
    /\ ret = NoCall
    /\ seen = NoCall
    /\ registry = TUNING_STANDARDS
    /\ tables = [RAGA_SHRUTIS |-> RAGA_SHRUTIS,
                 SHRUTIS_ratio |-> [i \in DOMAIN SHRUTIS |-> SHRUTIS[i].ratio]]

\* the engine as loaded; the audio-unlock module, which the engine never
\* calls, as loaded in a desktop browser
Init ==
    /\ InitEngine
    /\ sharedAudioContext = NoContext
    /\ unlockCount = 0
    /\ contexts = <<>>
    /\ calls = [p \in {} |-> p]
    /\ platform = [isMobile |-> FALSE, hasAudioCtx |-> TRUE,
                   autoplay |-> FALSE]

\* setTuning with the assignment to currentTuning left out
SetTuning_KeepsId(tuningId) ==
    /\ ret = NoCall
    /\ IF tuningId \in DOMAIN registry
       THEN /\ A4_FREQ' = registry[tuningId].a4
            /\ UNCHANGED currentTuning
       ELSE IF tuningId \in InheritedKeys
       THEN /\ A4_FREQ' = UndefinedA4
            /\ UNCHANGED currentTuning
       ELSE UNCHANGED <<currentTuning, A4_FREQ>>
    /\ ret' = [op |-> "setTuning", tuningId |-> tuningId]
    /\ UNCHANGED <<seen, registry, tables, audioVars>>

\* setTuning(tuningId): the test is the truthiness of
\* TUNING_STANDARDS[tuningId], which an inherited key passes as well
SetTuning(tuningId) ==
    /\ ret = NoCall
    /\ IF tuningId \in DOMAIN registry
       THEN /\ currentTuning' = tuningId
            /\ A4_FREQ' = registry[tuningId].a4
       ELSE IF tuningId \in InheritedKeys
       THEN /\ currentTuning' = tuningId
            /\ A4_FREQ' = UndefinedA4
       ELSE UNCHANGED <<currentTuning, A4_FREQ>>
    /\ ret' = [op |-> "setTuning", tuningId |-> tuningId]
    /\ UNCHANGED <<seen, registry, tables, audioVars>>

\* calculatePrism(f0)
CalculatePrism(f0) ==
    /\ ret = NoCall
    /\ ret' = [op |-> "calculatePrism", f0 |-> f0] @@ calculatePrism(f0, A4_FREQ)
    /\ UNCHANGED <<currentTuning, A4_FREQ, seen, registry, tables, audioVars>>

\* verifyMath()
VerifyMath ==
    /\ ret = NoCall
    /\ ret' = [op |-> "verifyMath", value |-> verifyMath]
    /\ UNCHANGED <<currentTuning, A4_FREQ, seen, registry, tables, audioVars>>

\* the reference pitches a caller passes as the argument a4
RegisteredA4 == {TUNING_STANDARDS[id].a4 : id \in TuningIds}

\* frequencies (mHz) passed to the exported pitch functions: from 0.5 Hz,
\* four octaves below MIDI 0, up to MIDI 127, the registered reference
\* pitches among them
KernelMillis ==
    {500, 1000, 4000, 7900, 8176, 12000, 16352, 27500, 55000, 99990, 100000,
     110000, 220000, 261626, 415000, 432000, 435000, 440000, 444000, 466000,
     880000, 999900, 1000000, 4186009, 12543854}

KernelFreqs == {Finite(m) : m \in KernelMillis}

\* pitchUtils freqToNoteName(freq, a4), a4 being A4_FREQ when the caller
\* leaves it out; ret keeps the function's local midiRounded
FreqToNoteName(freq, a4) ==
    /\ ret = NoCall
    /\ ret' = [op |-> "freqToNoteName", module |-> "pitchUtils",
               freq |-> freq, a4 |-> a4,
               midiRounded |-> freqToMidiRounded(freq, a4),
               value |-> freqToNoteName(freq, a4)]
    /\ UNCHANGED <<currentTuning, A4_FREQ, seen, registry, tables, audioVars>>

\* tuning.js freqToNoteName(freq, a4), a4 being 440 when the caller leaves
\* it out
TuningFreqToNoteName(freq, a4) ==
    /\ ret = NoCall
    /\ ret' = [op |-> "freqToNoteName", module |-> "tuning",
               freq |-> freq, a4 |-> a4,
               midiRounded |-> freqToMidiRounded(freq, a4),
               value |-> tuning_freqToNoteName(freq, a4)]
    /\ UNCHANGED <<currentTuning, A4_FREQ, seen, registry, tables, audioVars>>

KernelModules == {"pitchUtils", "tuning"}

\* the reference pitch a function of the module uses when the caller leaves
\* a4 out
DefaultA4(module) == IF module = "pitchUtils" THEN A4_FREQ ELSE 440

\* MIDI numbers passed to midiToFreq
KernelMidis == {-12, 0, 21, 57, 60, 68, 69, 70, 81, 108, 127}

\* freqToMidi(freq, a4) of either module
FreqToMidi(module, freq, a4) ==
    /\ ret = NoCall
    /\ ret' = [op |-> "freqToMidi", module |-> module, freq |-> freq,
               a4 |-> a4,
               value |-> IF module = "pitchUtils" THEN freqToMidi(freq, a4)
                         ELSE tuning_freqToMidi(freq, a4)]
    /\ UNCHANGED <<currentTuning, A4_FREQ, seen, registry, tables, audioVars>>

\* midiToFreq(midi, a4) of either module
MidiToFreq(module, midi, a4) ==
    /\ ret = NoCall
    /\ ret' = [op |-> "midiToFreq", module |-> module, midi |-> midi,
               a4 |-> a4,
               value |-> IF module = "pitchUtils"
                         THEN midiToFreq(MidiInt(midi), a4)
                         ELSE tuning_midiToFreq(MidiInt(midi), a4)]
    /\ UNCHANGED <<currentTuning, A4_FREQ, seen, registry, tables, audioVars>>

\* midiToFreq(freqToMidi(freq, a4), a4) of either module
RoundTrip(module, freq, a4) ==
    /\ ret = NoCall
    /\ ret' = [op |-> "roundTrip", module |-> module, freq |-> freq,
               a4 |-> a4,
               value |-> IF module = "pitchUtils"
                         THEN midiToFreq(freqToMidi(freq, a4), a4)
                         ELSE tuning_midiToFreq(tuning_freqToMidi(freq, a4),
                                                a4)]
    /\ UNCHANGED <<currentTuning, A4_FREQ, seen, registry, tables, audioVars>>

\* frequencies offered to formatHz, in mHz, around its two thresholds
FormatMillis ==
    {-4000, 0, 4, 5, 4600, 50000, 99990, 99994, 99995, 99999, 100000, 100040,
     100050, 440000, 999900, 999940, 999950, 999960, 999999, 1000000,
     1000400, 1000500, 2100000}

FormatInputs == {Finite(m) : m \in FormatMillis} \cup {NaN}

\* formatHz(hz)
FormatHz(hz) ==
    /\ ret = NoCall
    /\ ret' = [op |-> "formatHz", hz |-> hz, value |-> formatHz(hz)]
    /\ UNCHANGED <<currentTuning, A4_FREQ, seen, registry, tables, audioVars>>

\* getTuning() handing out the registry entry itself, with id written to it
getTuning_Shared ==
    [id |-> currentTuning,
     a4 |-> IF currentTuning \in DOMAIN registry
            THEN registry[currentTuning].a4 ELSE UndefinedA4,
     aliasOf |-> currentTuning]

\* getTuning(): a new object with id and, by the spread, the properties of
\* the current registry entry; aliasOf names the registry entry the object
\* returned is, "none" for an object of its own
getTuning ==
    [id |-> currentTuning,
     a4 |-> IF currentTuning \in DOMAIN registry
            THEN registry[currentTuning].a4 ELSE UndefinedA4,
     aliasOf |-> "none"]

\* getA4(tuningId = null)
getA4(tuningId) ==
    IF tuningId # "null" /\ tuningId # "" /\ tuningId \in DOMAIN registry
    THEN registry[tuningId].a4
    ELSE IF tuningId \in InheritedKeys THEN UndefinedA4
    ELSE A4_FREQ

\* compareAcrossTunings leaving the a4 argument of the conversions out, which
\* then default to A4_FREQ
compareAcrossTunings_CurrentA4(freq) ==
    [id \in DOMAIN registry |->
        LET tuning == registry[id]
            nearest == freqToNearestStandard(freq, A4_FREQ)
            cents == centsDifference(freq, nearest)
        IN  [name |-> freqToNoteName(freq, A4_FREQ),
             nearestHz |-> nearest,
             cents |-> RoundCents(cents),
             a4 |-> tuning.a4]]

\* compareAcrossTunings(freq): one entry per entry of the registry
compareAcrossTunings(freq) ==
    [id \in DOMAIN registry |->
        LET tuning == registry[id]
            nearest == freqToNearestStandard(freq, tuning.a4)
            cents == centsDifference(freq, nearest)
        IN  [name |-> freqToNoteName(freq, tuning.a4),
             nearestHz |-> nearest,
             cents |-> RoundCents(cents),
             a4 |-> tuning.a4]]

GetTuning ==
    /\ ret = NoCall
    /\ ret' = [op |-> "getTuning", value |-> getTuning]
    /\ UNCHANGED <<currentTuning, A4_FREQ, seen, registry, tables, audioVars>>

GetA4(tuningId) ==
    /\ ret = NoCall
    /\ ret' = [op |-> "getA4", tuningId |-> tuningId, value |-> getA4(tuningId)]
    /\ UNCHANGED <<currentTuning, A4_FREQ, seen, registry, tables, audioVars>>

\* frequencies offered to compareAcrossTunings
CompareFreqs == {Hz(100), Hz(220), Finite(261626), Hz(432), Hz(440), NaN}

CompareAcrossTunings(freq) ==
    /\ ret = NoCall
    /\ ret' = [op |-> "compareAcrossTunings", freq |-> freq,
               value |-> compareAcrossTunings(freq)]
    /\ UNCHANGED <<currentTuning, A4_FREQ, seen, registry, tables, audioVars>>

\* values a caller writes to the a4 property of a record it was given
WrittenA4 == {0, 441}

\* the caller of getTuning assigns to the a4 property of the object it got:
\* the write reaches the registry only if that object is a registry entry
ModifyTuning(a4) ==
    /\ ret.op = "getTuning"
    /\ ret' = [ret EXCEPT !.value.a4 = a4]
    /\ registry' = IF ret.value.aliasOf \in DOMAIN registry
                   THEN [registry EXCEPT ![ret.value.aliasOf].a4 = a4]
                   ELSE registry
    /\ UNCHANGED <<currentTuning, A4_FREQ, seen, tables, audioVars>>

\* the caller takes the outcome and goes on
Return ==
    /\ ret # NoCall
    /\ ret' = NoCall
    /\ UNCHANGED <<currentTuning, A4_FREQ, seen, registry, tables, audioVars>>

\* the caller takes the outcome of a calculatePrism call and keeps it,
\* with the tuning id that was current during the call
Keep ==
    /\ ret.op = "calculatePrism"
    /\ seen' = [call |-> ret, tuning |-> currentTuning]
    /\ ret' = NoCall
    /\ UNCHANGED <<currentTuning, A4_FREQ, registry, tables, audioVars>>

\* the caller keeps the outcome of a compareAcrossTunings call, with the
\* tuning id that was current during the call
KeepComparison ==
    /\ ret.op = "compareAcrossTunings"
    /\ seen' = [call |-> ret, tuning |-> currentTuning]
    /\ ret' = NoCall
    /\ UNCHANGED <<currentTuning, A4_FREQ, registry, tables, audioVars>>

Next ==
    \/ \E id \in TuningIds \cup UnregisteredIds \cup InheritedKeys : SetTuning(id)
    \/ \E f0 \in Inputs : CalculatePrism(f0)
    \/ VerifyMath
    \/ Return

Spec == Init /\ [][Next]_vars

\* the exported pitch functions called directly
NextKernel ==
    \/ \E id \in TuningIds \cup UnregisteredIds : SetTuning(id)
    \/ \E freq \in KernelFreqs, a4 \in {A4_FREQ} \cup RegisteredA4 :
          FreqToNoteName(freq, a4)
    \/ \E freq \in KernelFreqs, a4 \in {440} \cup RegisteredA4 :
          TuningFreqToNoteName(freq, a4)
    \/ \E module \in KernelModules :
          \E freq \in KernelFreqs, a4 \in {DefaultA4(module)} \cup RegisteredA4 :
          FreqToMidi(module, freq, a4)
    \/ \E module \in KernelModules :
          \E midi \in KernelMidis, a4 \in {DefaultA4(module)} \cup RegisteredA4 :
          MidiToFreq(module, midi, a4)
    \/ \E module \in KernelModules :
          \E freq \in KernelFreqs, a4 \in {DefaultA4(module)} \cup RegisteredA4 :
          RoundTrip(module, freq, a4)
    \/ \E hz \in FormatInputs : FormatHz(hz)
    \/ Return

SpecKernel == Init /\ [][NextKernel]_vars

NextPair ==
    \/ \E id \in TuningIds \cup UnregisteredIds \cup InheritedKeys : SetTuning(id)
    \/ \E f0 \in PairInputs : CalculatePrism(f0)
    \/ Return
    \/ Keep

SpecPair == Init /\ [][NextPair]_vars

\* the consumer holds a result that calculatePrism returned
HoldsResult ==
    /\ ret = NoCall
    /\ seen # NoCall
    /\ seen.call.outcome = "return"

\* the consumer empties the shrutis array of a raga of the result it holds
\* (result.frameworks.vedic.shruti.ragas.bilawal.shrutis.length = 0): ragas
\* is the RAGA_SHRUTIS object, so the write is a write to the table
ModifyRagas(raga) ==
    /\ HoldsResult
    /\ LET ragas == [tables.RAGA_SHRUTIS EXCEPT ![raga] = <<>>]
       IN  /\ tables' = [tables EXCEPT !.RAGA_SHRUTIS = ragas]
           /\ seen' = [seen EXCEPT
                         !.call.value.frameworks.vedic.shruti.ragas = ragas]
    /\ UNCHANGED <<currentTuning, A4_FREQ, ret, registry, audioVars>>

\* the consumer assigns to the first element of the ratio of a shruti entry
\* of the result it holds (scale[i - 1].ratio[0] = n): the array is the
\* ratio array of the SHRUTIS entry
ModifyShrutiRatio(i, n) ==
    /\ HoldsResult
    /\ LET ratio == <<n, tables.SHRUTIS_ratio[i][2]>>
       IN  /\ tables' = [tables EXCEPT !.SHRUTIS_ratio[i] = ratio]
           /\ seen' = [seen EXCEPT
                         !.call.value.frameworks.vedic.shruti.scale[i].ratio
                             = ratio]
    /\ UNCHANGED <<currentTuning, A4_FREQ, ret, registry, audioVars>>

\* the consumer assigns to input.cents of the result it holds: input is an
\* object calculatePrism made for this result
ModifyInput(cents) ==
    /\ HoldsResult
    /\ seen' = [seen EXCEPT !.call.value.input.cents = cents]
    /\ UNCHANGED <<currentTuning, A4_FREQ, ret, registry, tables, audioVars>>

\* calculatePrism and a consumer that keeps a result and writes to it
NextShared ==
    \/ \E f0 \in PairInputs : CalculatePrism(f0)
    \/ Keep
    \/ \E raga \in DOMAIN RAGA_SHRUTIS : ModifyRagas(raga)
    \/ \E i \in {5, 23} : ModifyShrutiRatio(i, 7)
    \/ ModifyInput(99)
    \/ Return

SpecShared == Init /\ [][NextShared]_vars

\* the operations that read the registry, and a caller of getTuning that
\* writes to the record it was given
NextRegistry ==
    \/ \E id \in TuningIds \cup UnregisteredIds \cup InheritedKeys : SetTuning(id)
    \/ GetTuning
    \/ \E id \in TuningIds \cup UnregisteredIds \cup InheritedKeys \cup {"null"} :
          GetA4(id)
    \/ \E freq \in CompareFreqs : CompareAcrossTunings(freq)
    \/ \E f0 \in PairInputs : CalculatePrism(f0)
    \/ VerifyMath
    \/ \E a4 \in WrittenA4 : ModifyTuning(a4)
    \/ KeepComparison
    \/ Return

SpecRegistry == Init /\ [][NextRegistry]_vars

(***************************************************************************)
(* The audio-unlock module (mobileAudio.js).  An AudioContext is a record  *)
(* of the sequence contexts, named by its index; sharedAudioContext is the *)
(* index of the context the module holds, NoContext for null.  close() and *)
(* resume() only ask for a change of state: the state attribute changes in *)
(* a later task of the browser (ContextStateChange).  Each async call is a *)
(* record of calls that moves from one await to the next.                  *)
(***************************************************************************)
\* number of contexts the module creates in a run
MaxContexts == 2

\* cap of the counter unlockCount
MaxUnlockCount == 2

\* the callers of the async functions: each has at most one call of
\* forceUnlock or getAudioContext in flight
Callers == {"first", "second"}

\* maxRetries of resumeContext
MaxRetries == 3

\* the browsers: navigator and window as isMobile() and ensureContext read
\* them, and whether a context may start without a request (autoplay policy)
Platforms ==
    [isMobile : BOOLEAN, hasAudioCtx : BOOLEAN, autoplay : BOOLEAN]

Idle == [op |-> "none", pc |-> "idle"]

\* new AudioCtx(): a context starts suspended
AudioContext ==
    [state |-> "suspended", closeCalled |-> FALSE,
     startRequested |-> platform.autoplay]

\* ctx.resume() without await: asks a context that is not closed to start
resume(ctxs, ctx) ==
    IF ctxs[ctx].closeCalled
    THEN ctxs
    ELSE [ctxs EXCEPT ![ctx].startRequested = TRUE]

\* ctx.close(): the context is closed for the caller from now on, its state
\* attribute follows
close(ctxs, ctx) ==
    [ctxs EXCEPT ![ctx].closeCalled = TRUE, ![ctx].startRequested = FALSE]

\* ensureContext: the context held, a new one when none is held, null when
\* the browser has no AudioContext; with the module state it leaves
ensureContext ==
    IF sharedAudioContext # NoContext
    THEN [sharedAudioContext |-> sharedAudioContext, contexts |-> contexts]
    ELSE IF ~platform.hasAudioCtx
         THEN [sharedAudioContext |-> NoContext, contexts |-> contexts]
         ELSE [sharedAudioContext |-> Len(contexts) + 1,
               contexts |-> Append(contexts, AudioContext)]

\* a call creates a context only while the run may create one more
CanEnsure ==
    (sharedAudioContext = NoContext /\ platform.hasAudioCtx)
        => Len(contexts) < MaxContexts

\* isAudioReady(): sharedAudioContext && sharedAudioContext.state ===
\* 'running', null when no context is held
isAudioReady ==
    IF sharedAudioContext = NoContext
    THEN [type |-> "null"]
    ELSE [type |-> "boolean",
          value |-> contexts[sharedAudioContext].state = "running"]

\* warmupAudio: creates the context on a desktop browser, nothing on mobile
WarmupAudio ==
    /\ CanEnsure
    /\ IF platform.isMobile
       THEN UNCHANGED <<sharedAudioContext, contexts>>
       ELSE /\ sharedAudioContext' = ensureContext.sharedAudioContext
            /\ contexts' = ensureContext.contexts
    /\ UNCHANGED <<unlockCount, calls, platform>>
    /\ UNCHANGED <<currentTuning, A4_FREQ, ret, seen, registry, tables>>

\* closeAudioContext: closes the held context and releases it
CloseAudioContext ==
    /\ IF sharedAudioContext # NoContext
       THEN /\ contexts' = close(contexts, sharedAudioContext)
            /\ sharedAudioContext' = NoContext
            /\ unlockCount' = 0
       ELSE UNCHANGED <<sharedAudioContext, contexts, unlockCount>>
    /\ UNCHANGED <<calls, platform>>
    /\ UNCHANGED <<currentTuning, A4_FREQ, ret, seen, registry, tables>>

\* unlockAudioSync with the close of the existing context left out
UnlockAudioSync_NoClose ==
    /\ IF platform.isMobile
       THEN IF platform.hasAudioCtx
            THEN /\ Len(contexts) < MaxContexts
                 /\ unlockCount < MaxUnlockCount
                 /\ contexts' = resume(Append(contexts, AudioContext),
                                       Len(contexts) + 1)
                 /\ sharedAudioContext' = Len(contexts) + 1
                 /\ unlockCount' = unlockCount + 1
            ELSE /\ contexts' = contexts
                 /\ sharedAudioContext' = NoContext
                 /\ UNCHANGED unlockCount
       ELSE /\ CanEnsure
            /\ sharedAudioContext' = ensureContext.sharedAudioContext
            /\ contexts' =
                 IF ensureContext.sharedAudioContext = NoContext
                 THEN contexts
                 ELSE resume(ensureContext.contexts,
                             ensureContext.sharedAudioContext)
            /\ UNCHANGED unlockCount
    /\ UNCHANGED <<calls, platform>>
    /\ UNCHANGED <<currentTuning, A4_FREQ, ret, seen, registry, tables>>

\* unlockAudioSync: on mobile closes and releases the held context, then
\* creates a new one, asks it to start and counts the unlock (new AudioCtx()
\* throws when the browser has no AudioContext: the old context stays closed
\* and released); on desktop ensureContext and resume() when suspended
UnlockAudioSync ==
    /\ IF platform.isMobile
       THEN LET closed == IF sharedAudioContext # NoContext
                          THEN close(contexts, sharedAudioContext)
                          ELSE contexts
            IN  IF platform.hasAudioCtx
                THEN /\ Len(contexts) < MaxContexts
                     /\ unlockCount < MaxUnlockCount
                     /\ contexts' = resume(Append(closed, AudioContext),
                                           Len(closed) + 1)
                     /\ sharedAudioContext' = Len(closed) + 1
                     /\ unlockCount' = unlockCount + 1
                ELSE /\ contexts' = closed
                     /\ sharedAudioContext' = NoContext
                     /\ UNCHANGED unlockCount
       ELSE /\ CanEnsure
            /\ sharedAudioContext' = ensureContext.sharedAudioContext
            /\ contexts' =
                 IF ensureContext.sharedAudioContext = NoContext
                 THEN contexts
                 ELSE resume(ensureContext.contexts,
                             ensureContext.sharedAudioContext)
            /\ UNCHANGED unlockCount
    /\ UNCHANGED <<calls, platform>>
    /\ UNCHANGED <<currentTuning, A4_FREQ, ret, seen, registry, tables>>

\* the call as it is once the resumeContext it awaited has returned resumed:
\* forceUnlock returns resumed, getAudioContext returns ctx either way
AfterResume(call, resumed) ==
    [op |-> call.op, pc |-> "done", ctx |-> call.ctx,
     value |-> IF call.op = "forceUnlock" THEN resumed ELSE call.ctx]

\* resumeContext after attempt i did not find the context running: waits
\* before the next attempt, returns ctx.state === 'running' after the last
AfterAttempt(ctxs, call, i) ==
    IF i < MaxRetries - 1
    THEN [op |-> call.op, pc |-> "retry", ctx |-> call.ctx, i |-> i]
    ELSE AfterResume(call, ctxs[call.ctx].state = "running")

\* resumeContext from the head of attempt i to its next await: returns true
\* for a running context, else awaits ctx.resume(), which a closed context
\* rejects at once; gives the contexts and the call
resumeContext(ctxs, call, i) ==
    IF ctxs[call.ctx].state = "running"
    THEN [contexts |-> ctxs, call |-> AfterResume(call, TRUE)]
    ELSE IF ctxs[call.ctx].closeCalled
         THEN [contexts |-> ctxs, call |-> AfterAttempt(ctxs, call, i)]
         ELSE [contexts |-> resume(ctxs, call.ctx),
               call |-> [op |-> call.op, pc |-> "resume", ctx |-> call.ctx,
                         i |-> i]]

\* forceUnlock up to its first await: ensureContext, resume() when
\* suspended, the unlock tone, unlockCount++
ForceUnlock(p) ==
    /\ calls[p] = Idle
    /\ CanEnsure
    /\ sharedAudioContext' = ensureContext.sharedAudioContext
    /\ LET ctx == ensureContext.sharedAudioContext
       IN  IF ctx = NoContext
           THEN /\ calls' = [calls EXCEPT ![p] =
                               [op |-> "forceUnlock", pc |-> "done",
                                ctx |-> NoContext, value |-> FALSE]]
                /\ UNCHANGED <<contexts, unlockCount>>
           ELSE /\ unlockCount < MaxUnlockCount
                /\ contexts' =
                     IF ensureContext.contexts[ctx].state = "suspended"
                     THEN resume(ensureContext.contexts, ctx)
                     ELSE ensureContext.contexts
                /\ unlockCount' = unlockCount + 1
                /\ calls' = [calls EXCEPT ![p] =
                               [op |-> "forceUnlock", pc |-> "wait",
                                ctx |-> ctx]]
    /\ UNCHANGED platform
    /\ UNCHANGED <<currentTuning, A4_FREQ, ret, seen, registry, tables>>

\* forceUnlock after its wait of 100 ms: true for a running context, else
\* the outcome of resumeContext(ctx, 3)
ForceUnlockWaited(p) ==
    /\ calls[p].op = "forceUnlock"
    /\ calls[p].pc = "wait"
    /\ IF contexts[calls[p].ctx].state = "running"
       THEN /\ calls' = [calls EXCEPT ![p] = AfterResume(calls[p], TRUE)]
            /\ UNCHANGED contexts
       ELSE /\ calls' = [calls EXCEPT ![p] =
                           resumeContext(contexts, calls[p], 0).call]
            /\ contexts' = resumeContext(contexts, calls[p], 0).contexts
    /\ UNCHANGED <<sharedAudioContext, unlockCount, platform>>
    /\ UNCHANGED <<currentTuning, A4_FREQ, ret, seen, registry, tables>>

\* getAudioContext up to its first await: ensureContext, resume() when
\* suspended, on mobile the unlock tone and unlockCount++ unless running
GetAudioContext(p) ==
    /\ calls[p] = Idle
    /\ CanEnsure
    /\ sharedAudioContext' = ensureContext.sharedAudioContext
    /\ LET ctx == ensureContext.sharedAudioContext
       IN  IF ctx = NoContext
           THEN /\ calls' = [calls EXCEPT ![p] =
                               [op |-> "getAudioContext", pc |-> "done",
                                ctx |-> NoContext, value |-> NoContext]]
                /\ UNCHANGED <<contexts, unlockCount>>
           ELSE /\ contexts' =
                     IF ensureContext.contexts[ctx].state = "suspended"
                     THEN resume(ensureContext.contexts, ctx)
                     ELSE ensureContext.contexts
                /\ IF platform.isMobile
                      /\ ensureContext.contexts[ctx].state # "running"
                   THEN /\ unlockCount < MaxUnlockCount
                        /\ unlockCount' = unlockCount + 1
                   ELSE UNCHANGED unlockCount
                /\ calls' = [calls EXCEPT ![p] =
                               [op |-> "getAudioContext", pc |-> "wait",
                                ctx |-> ctx]]
    /\ UNCHANGED platform
    /\ UNCHANGED <<currentTuning, A4_FREQ, ret, seen, registry, tables>>

\* getAudioContext after its wait of 100 ms: resumeContext(ctx) for a
\* suspended context, else returns ctx
GetAudioContextWaited(p) ==
    /\ calls[p].op = "getAudioContext"
    /\ calls[p].pc = "wait"
    /\ IF contexts[calls[p].ctx].state = "suspended"
       THEN /\ calls' = [calls EXCEPT ![p] =
                           resumeContext(contexts, calls[p], 0).call]
            /\ contexts' = resumeContext(contexts, calls[p], 0).contexts
       ELSE /\ calls' = [calls EXCEPT ![p] = AfterResume(calls[p], TRUE)]
            /\ UNCHANGED contexts
    /\ UNCHANGED <<sharedAudioContext, unlockCount, platform>>
    /\ UNCHANGED <<currentTuning, A4_FREQ, ret, seen, registry, tables>>

\* resumeContext: the promise of ctx.resume() is rejected because the
\* context was closed while it was pending
ResumeRejected(p) ==
    /\ calls[p].pc = "resume"
    /\ contexts[calls[p].ctx].closeCalled
    /\ calls' = [calls EXCEPT ![p] =
                   AfterAttempt(contexts, calls[p], calls[p].i)]
    /\ UNCHANGED <<sharedAudioContext, unlockCount, contexts, platform>>
    /\ UNCHANGED <<currentTuning, A4_FREQ, ret, seen, registry, tables>>

\* resumeContext after the 50 ms that follow a resolved ctx.resume()
ResumeSettled(p) ==
    /\ calls[p].pc = "settle"
    /\ calls' = [calls EXCEPT ![p] =
                   IF contexts[calls[p].ctx].state = "running"
                   THEN AfterResume(calls[p], TRUE)
                   ELSE AfterAttempt(contexts, calls[p], calls[p].i)]
    /\ UNCHANGED <<sharedAudioContext, unlockCount, contexts, platform>>
    /\ UNCHANGED <<currentTuning, A4_FREQ, ret, seen, registry, tables>>

\* resumeContext after the 100 ms before the next attempt
ResumeRetry(p) ==
    /\ calls[p].pc = "retry"
    /\ calls' = [calls EXCEPT ![p] =
                   resumeContext(contexts, calls[p], calls[p].i + 1).call]
    /\ contexts' = resumeContext(contexts, calls[p], calls[p].i + 1).contexts
    /\ UNCHANGED <<sharedAudioContext, unlockCount, platform>>
    /\ UNCHANGED <<currentTuning, A4_FREQ, ret, seen, registry, tables>>

\* the caller of a call that has returned takes its value
Resolved(p) ==
    /\ calls[p].pc = "done"
    /\ calls' = [calls EXCEPT ![p] = Idle]
    /\ UNCHANGED <<sharedAudioContext, unlockCount, contexts, platform>>
    /\ UNCHANGED <<currentTuning, A4_FREQ, ret, seen, registry, tables>>

\* the browser changes the state attribute of a context: a context asked to
\* start starts, which resolves the pending promises of its resume(); a
\* running context is interrupted (tab in the background); a context whose
\* close() was called becomes closed
ContextStateChange(ctx) ==
    /\ IF contexts[ctx].closeCalled
       THEN /\ contexts[ctx].state # "closed"
            /\ contexts' = [contexts EXCEPT ![ctx].state = "closed"]
            /\ UNCHANGED calls
       ELSE IF contexts[ctx].state = "running"
            THEN /\ contexts' = [contexts EXCEPT ![ctx].state = "suspended"]
                 /\ UNCHANGED calls
            ELSE /\ contexts[ctx].startRequested
                 /\ contexts' = [contexts EXCEPT ![ctx].state = "running"]
                 /\ calls' =
                      [p \in Callers |->
                         IF calls[p].pc = "resume" /\ calls[p].ctx = ctx
                         THEN [calls[p] EXCEPT !.pc = "settle"]
                         ELSE calls[p]]
    /\ UNCHANGED <<sharedAudioContext, unlockCount, platform>>
    /\ UNCHANGED <<currentTuning, A4_FREQ, ret, seen, registry, tables>>

\* the module as loaded in any browser
InitAudio ==
    /\ InitEngine
    /\ sharedAudioContext = NoContext
    /\ unlockCount = 0
    /\ contexts = <<>>
    /\ calls = [p \in Callers |-> Idle]
    /\ platform \in Platforms

\* the operations of the audio-unlock module, the timers and promises of its
\* calls in flight, and the browser
NextAudio ==
    \/ WarmupAudio
    \/ CloseAudioContext
    \/ UnlockAudioSync
    \/ \E p \in Callers : ForceUnlock(p)
    \/ \E p \in Callers : ForceUnlockWaited(p)
    \/ \E p \in Callers : GetAudioContext(p)
    \/ \E p \in Callers : GetAudioContextWaited(p)
    \/ \E p \in Callers : ResumeRejected(p)
    \/ \E p \in Callers : ResumeSettled(p)
    \/ \E p \in Callers : ResumeRetry(p)
    \/ \E p \in Callers : Resolved(p)
    \/ \E ctx \in DOMAIN contexts : ContextStateChange(ctx)

SpecAudio == InitAudio /\ [][NextAudio]_vars

(***************************************************************************)
(* Properties                                                              *)
(***************************************************************************)
\* a finite number between 50 and 1000 Hz, both inclusive
InRange(x) ==
    /\ x.type = "number"
    /\ x.kind = "finite"
    /\ x.num >= 50000 * x.den
    /\ x.num <= 1000000 * x.den

Called == ret.op = "calculatePrism"

Returned == ret.op = "calculatePrism" /\ ret.outcome = "return"

\* C1: calculatePrism accepts f0 exactly when f0 is a finite number in
\* [50, 1000]; every other value is rejected with the domain error.
C1_RejectsAllButValid ==
    Called =>
        ((ret.outcome = "throw" /\ ret.error = DomainError) <=> ~InRange(ret.f0))

\* C2: a calculatePrism call either fails validation before any stage has
\* run, or completes every stage and returns input, scale, the six
\* framework results and the narrative.
C2_AllOrNothing ==
    Called =>
        \/ /\ ret.outcome = "throw"
           /\ ret.error = DomainError
           /\ ret.completed = <<>>
        \/ /\ ret.outcome = "return"
           /\ ret.completed = Stages
           /\ DOMAIN ret.value = {"input", "scale", "frameworks", "narrative"}
           /\ DOMAIN ret.value.frameworks =
                 {"pythagorean", "vedic", "gregorian", "western", "tibetan",
                  "neuroscience"}

\* two calculatePrism calls, an earlier one kept and the one just made, with
\* the same valid f0
SameValidF0 ==
    /\ seen # NoCall
    /\ Called
    /\ ret.f0 = seen.call.f0
    /\ InRange(ret.f0)

Agree(r1, r2) ==
    /\ r1.outcome = "return"
    /\ r2.outcome = "return"
    /\ r1.value.input = r2.value.input
    /\ r1.value.scale = r2.value.scale
    /\ r1.value.frameworks = r2.value.frameworks
    /\ r1.value.narrative = r2.value.narrative

SameThrow(r1, r2) ==
    /\ r1.outcome = "throw"
    /\ r2.outcome = "throw"
    /\ r1.error = r2.error
    /\ r1.completed = r2.completed

VedicDone == Called /\ Len(ret.completed) >= 4

\* the analyzeVedic result of that call
Vedic ==
    IF ret.outcome = "return" THEN ret.value.frameworks.vedic
    ELSE ret.work.vedic

\* f0 lies in the half-open interval [min, max) of band k of a table
InBand(table, k, f0) ==
    JsGeq(f0, Hz(table[k].min)) /\ JsLess(f0, Hz(table[k].max))

\* C4: for every valid f0 the vocal category of the Western analysis is the
\* one band of VOCAL_CATEGORIES whose interval [min, max) contains f0.
C4_VocalBandContainsF0 ==
    (Returned /\ InRange(ret.f0)) =>
        LET vocal == ret.value.frameworks.western.vocalCategory
        IN  \E k \in DOMAIN VOCAL_CATEGORIES :
               /\ InBand(VOCAL_CATEGORIES, k, ret.f0)
               /\ vocal.category = VOCAL_CATEGORIES[k].category
               /\ vocal.range =
                     <<VOCAL_CATEGORIES[k].min, VOCAL_CATEGORIES[k].max>>
               /\ \A j \in DOMAIN VOCAL_CATEGORIES :
                     InBand(VOCAL_CATEGORIES, j, ret.f0) => j = k

\* C5: for every valid f0 the saptak of the Vedic analysis is the one band of
\* SAPTAKS whose interval [min, max) contains f0, so the range reported in
\* "Your f0 Hz falls within ..." contains f0.
C5_SaptakBandContainsF0 ==
    (Returned /\ InRange(ret.f0)) =>
        LET saptak == ret.value.frameworks.vedic.saptak
        IN  /\ \E k \in DOMAIN SAPTAKS :
                  /\ InBand(SAPTAKS, k, ret.f0)
                  /\ saptak.name = SAPTAKS[k].name
                  /\ saptak.range = <<SAPTAKS[k].min, SAPTAKS[k].max>>
                  /\ \A j \in DOMAIN SAPTAKS :
                        InBand(SAPTAKS, j, ret.f0) => j = k
            /\ saptak.yourPosition.f0 = ret.f0
            /\ saptak.yourPosition.within = saptak.name
            /\ JsGeq(ret.f0, Hz(saptak.yourPosition.range[1]))
            /\ JsLess(ret.f0, Hz(saptak.yourPosition.range[2]))

\* C6: for every f0 the chakra lookup is made for, the chakra is band i of
\* the seven with max[i-1] <= f0 < max[i]: the first band below 130 Hz, the
\* Crown band from 220 Hz on; some threshold always exceeds f0, so the
\* fallback to the last band is not needed.
C6_ChakraBand ==
    VedicDone =>
        /\ Len(CHAKRAS) = 7
        /\ \E k \in DOMAIN CHAKRAS : JsLess(ret.f0, CHAKRAS[k].max)
        /\ \E i \in DOMAIN CHAKRAS :
              /\ Vedic.chakra.name = CHAKRAS[i].name
              /\ JsLess(ret.f0, CHAKRAS[i].max)
              /\ i > 1 => JsGeq(ret.f0, CHAKRAS[i - 1].max)
              /\ \A j \in DOMAIN CHAKRAS :
                    (/\ JsLess(ret.f0, CHAKRAS[j].max)
                     /\ j > 1 => JsGeq(ret.f0, CHAKRAS[j - 1].max)) => j = i
        /\ JsLess(ret.f0, Hz(130)) => Vedic.chakra.name = CHAKRAS[1].name
        /\ JsGeq(ret.f0, Hz(220)) => Vedic.chakra.name = CHAKRAS[7].name

\* the bands of VOCAL_CATEGORIES or SAPTAKS that contain f0
BandsOf(table, f0) == {k \in DOMAIN table : InBand(table, k, f0)}

\* a table of [min, max) bands is listed in ascending order, every band has
\* min < max and ends where the next one starts
Contiguous(table) ==
    /\ \A k \in DOMAIN table : table[k].min < table[k].max
    /\ \A k \in 1..(Len(table) - 1) : table[k].max = table[k + 1].min

\* the chakra bands that contain f0, band k being [max[k-1], max[k])
ChakraBandsOf(f0) ==
    {k \in DOMAIN CHAKRAS :
        /\ JsLess(f0, CHAKRAS[k].max)
        /\ k > 1 => JsGeq(f0, CHAKRAS[k - 1].max)}

\* C7: the vocal-category and saptak tables are contiguous and ascending,
\* the chakra thresholds strictly increasing with only the last unbounded;
\* so every f0 passed to calculatePrism lies in at most one band of each
\* table, and in exactly one when it lies between the table's lowest min
\* and its highest max.
C7_BandTablesPartition ==
    /\ Contiguous(VOCAL_CATEGORIES)
    /\ Contiguous(SAPTAKS)
    /\ \A k \in 1..(Len(CHAKRAS) - 1) :
          /\ IsFinite(CHAKRAS[k].max)
          /\ JsLess(CHAKRAS[k].max, CHAKRAS[k + 1].max)
    /\ CHAKRAS[Len(CHAKRAS)].max = PosInfinity
    /\ (Called /\ ret.f0.type = "number") =>
          /\ Cardinality(BandsOf(VOCAL_CATEGORIES, ret.f0)) <= 1
          /\ Cardinality(BandsOf(SAPTAKS, ret.f0)) <= 1
          /\ Cardinality(ChakraBandsOf(ret.f0)) <= 1
          /\ InBand(<<[min |-> VOCAL_CATEGORIES[1].min,
                       max |-> VOCAL_CATEGORIES[Len(VOCAL_CATEGORIES)].max]>>,
                    1, ret.f0)
                => Cardinality(BandsOf(VOCAL_CATEGORIES, ret.f0)) = 1
          /\ InBand(<<[min |-> SAPTAKS[1].min,
                       max |-> SAPTAKS[Len(SAPTAKS)].max]>>, 1, ret.f0)
                => Cardinality(BandsOf(SAPTAKS, ret.f0)) = 1

\* 131 Hz, where the Mandra saptak ends and the Madhya saptak starts, has
\* been analysed and reported in the Madhya band
C7_Witness ==
    /\ Returned
    /\ ret.f0 = Hz(131)
    /\ ret.value.frameworks.vedic.saptak.name = "Madhya Saptak"
    /\ ret.value.frameworks.western.vocalCategory.category = "Baritone"

\* the scale of a returned analysis has 8 degrees numbered 1..8 in order
EightDegrees(scale) ==
    /\ Len(scale) = 8
    /\ \A i \in 1..8 : scale[i].degree = i
    /\ \A i \in 1..8 : scale[i].ratio = JUST_INTONATION[i].ratio
    /\ <<1, 1>> = scale[1].ratio /\ <<9, 8>> = scale[2].ratio
    /\ <<5, 4>> = scale[3].ratio /\ <<4, 3>> = scale[4].ratio
    /\ <<3, 2>> = scale[5].ratio /\ <<5, 3>> = scale[6].ratio
    /\ <<15, 8>> = scale[7].ratio /\ <<2, 1>> = scale[8].ratio

\* hz (centihertz) minus f0 * ratio, in units of 1 / (f0.den * ratio[2]) mHz
HzError(f0, degree) ==
    degree.hz * 10 * f0.den * degree.ratio[2] - f0.num * degree.ratio[1]

\* C8 as stated: for every valid f0 the scale has 8 degrees numbered 1..8
\* and each hz equals f0 times the degree's just-intonation ratio.
C8_HzIsExactProduct ==
    Returned =>
        /\ EightDegrees(ret.value.scale)
        /\ \A i \in 1..8 : HzError(ret.f0, ret.value.scale[i]) = 0

\* C8 amended: for every valid f0 the scale has 8 degrees numbered 1..8 and
\* each hz is f0 times the degree's ratio rounded to two decimals: within
\* 0.005 Hz of the product, and equal to it when the product has at most two
\* decimals.
C8_HzIsRoundedProduct ==
    Returned =>
        /\ EightDegrees(ret.value.scale)
        /\ \A i \in 1..8 :
              LET degree == ret.value.scale[i]
                  halfCenti == 5 * ret.f0.den * degree.ratio[2]
              IN  /\ HzError(ret.f0, degree) <= halfCenti
                  /\ HzError(ret.f0, degree) > -halfCenti
                  /\ (ret.f0.num * degree.ratio[1]) % (2 * halfCenti) = 0
                        => HzError(ret.f0, degree) = 0

\* 50 Hz analysed: the fourth, 66.666..., is reported as 66.67
C8_Witness ==
    /\ Returned
    /\ ret.f0 = Hz(50)
    /\ ret.value.scale[4].hz = 6667
    /\ ret.value.scale[5].hz = 7500

\* C9 as stated: the hz values of the scale are strictly increasing from
\* degree 1 to degree 8 and the hz of degree 8 is exactly twice that of
\* degree 1.
C9_IncreasingExactOctave ==
    Returned =>
        /\ \A i \in 1..7 : ret.value.scale[i].hz < ret.value.scale[i + 1].hz
        /\ ret.value.scale[8].hz = 2 * ret.value.scale[1].hz

\* C9 amended: for every valid f0 the hz values of the scale are strictly
\* increasing from degree 1 to degree 8 and the hz of degree 8 is within
\* 0.01 Hz of twice that of degree 1, exactly twice when f0 has at most two
\* decimals.
C9_IncreasingNearOctave ==
    Returned =>
        /\ \A i \in 1..7 : ret.value.scale[i].hz < ret.value.scale[i + 1].hz
        /\ Abs(ret.value.scale[8].hz - 2 * ret.value.scale[1].hz) <= 1
        /\ ret.f0.num % (10 * ret.f0.den) = 0
              => ret.value.scale[8].hz = 2 * ret.value.scale[1].hz

\* 50.006 Hz analysed: degree 1 is 50.01 and degree 8 is 100.01
C9_Witness ==
    /\ Returned
    /\ ret.f0 = Finite(50006)
    /\ ret.value.scale[1].hz = 5001
    /\ ret.value.scale[8].hz = 10001

\* C10: SHRUTIS has 23 entries numbered 1..23, its cents rise strictly from
\* 0 to 1200 and its ratios rise strictly from 1:1 to 2:1; so every shruti
\* scale generated rises strictly in hz from f0 to 2 * f0.
C10_ShrutiOrdering ==
    /\ Len(SHRUTIS) = 23
    /\ \A i \in 1..23 : SHRUTIS[i].shruti = i
    /\ SHRUTIS[1].cents = 0 /\ SHRUTIS[23].cents = 1200
    /\ SHRUTIS[1].ratio = <<1, 1>> /\ SHRUTIS[23].ratio = <<2, 1>>
    /\ \A i \in 1..22 :
          /\ SHRUTIS[i].cents < SHRUTIS[i + 1].cents
          /\ SHRUTIS[i].ratio[1] * SHRUTIS[i + 1].ratio[2]
                < SHRUTIS[i + 1].ratio[1] * SHRUTIS[i].ratio[2]
    /\ VedicDone =>
          LET shrutis == Vedic.shruti.scale
          IN  /\ Len(shrutis) = 23
              /\ \A i \in 1..22 : JsLess(shrutis[i].hz, shrutis[i + 1].hz)
              /\ JsGeq(shrutis[1].hz, ret.f0) /\ JsGeq(ret.f0, shrutis[1].hz)
              /\ JsGeq(shrutis[23].hz, Times(ret.f0, 2, 1))
              /\ JsGeq(Times(ret.f0, 2, 1), shrutis[23].hz)

\* C11: for every rounded MIDI number m, negative ones included, the note
\* name freqToNoteName builds is NOTE_NAMES at an index in 0..11 with the
\* octave such that 12 * (octave + 1) + index = m (69 is A4, 57 is A3); m
\* determines the index and the octave, so pitchUtils and tuning.js, which
\* both satisfy this, name the same m alike.
C11_NoteNameOfMidi ==
    ret.op = "freqToNoteName" =>
        /\ \E index \in 0..11 :
              /\ ret.value.name = NOTE_NAMES[index + 1]
              /\ 12 * (ret.value.octave + 1) + index = ret.midiRounded
        /\ ret.midiRounded = 69 => ret.value = [name |-> "A", octave |-> 4]
        /\ ret.midiRounded = 57 => ret.value = [name |-> "A", octave |-> 3]

\* 7.9 Hz, MIDI -1 under A440, named B-2 by tuning.js
C11_Witness ==
    /\ ret.op = "freqToNoteName"
    /\ ret.module = "tuning"
    /\ ret.midiRounded = -1
    /\ ret.value = [name |-> "B", octave |-> -2]

C13_VerifyMathPasses ==
    ret.op = "verifyMath" =>
        /\ Len(ret.value) = 9
        /\ \A i \in 1..9 : ret.value[i].pass
        /\ ret.value[8].test = "432/240 = 1.8 = 9/5 (minor 7th)"
        /\ ret.value[9].test = "f0 for 432 as Ni (15/8)"

\* verifyMath called while A432 is the current tuning
C13_Witness ==
    /\ ret.op = "verifyMath"
    /\ currentTuning = "A432"
    /\ A4_FREQ = 432
    /\ ret.value[1].pass
    /\ ret.value[2].pass

\* a calculatePrism call has run analyzePythagorean, whether or not a later
\* stage threw
PythagoreanDone == Called /\ Len(ret.completed) >= 3

\* the analyzePythagorean result of that call
Pythagorean ==
    IF ret.outcome = "return" THEN ret.value.frameworks.pythagorean
    ELSE ret.work.pythagorean

\* C14: for every f0 the comma reported by analyzePythagorean has the ratio
\* 531441:524288, which is 3^12 : 2^19 = (3/2)^12 / 2^7, and the cents value
\* 23.46 that PYTHAGOREAN_COMMA stores.
C14_PythagoreanComma ==
    PythagoreanDone =>
        /\ Pythagorean.comma.ratio = <<531441, 524288>>
        /\ Pythagorean.comma.ratio[1] = Pow(3, 12)
        /\ Pythagorean.comma.ratio[2] = Pow(2, 19)
        /\ Pythagorean.comma.ratio[2] = Pow(2, 12) * Pow(2, 7)
        /\ Pythagorean.comma.cents = 2346
        /\ Pythagorean.comma.cents = PYTHAGOREAN_COMMA.cents
        /\ Pythagorean.comma.ratio = PYTHAGOREAN_COMMA.ratio

\* 100 Hz analysed under A432: the comma is 23.46 cents
C14_Witness ==
    /\ Returned
    /\ ret.f0 = Hz(100)
    /\ currentTuning = "A432"
    /\ ret.value.frameworks.pythagorean.comma.cents = 2346

\* C15: for every valid f0 analyzeTibetan returns 16 overtones, the n-th
\* with harmonic = n and hz = f0 * n, and exactly the harmonics 7, 11, 13
\* and 14 carry a deviation note; for f0 = 300 harmonic 7 has hz = 2100 and
\* the note "~31c flat of 12-TET".
C15_OvertonesFlagged ==
    (Returned /\ InRange(ret.f0)) =>
        LET overtones == ret.value.frameworks.tibetan.overtones
        IN  /\ Len(overtones) = 16
            /\ \A n \in 1..16 :
                  /\ overtones[n].harmonic = n
                  /\ FracEq(overtones[n].hz, Times(ret.f0, n, 1))
                  /\ overtones[n].note # "null" <=> n \in {7, 11, 13, 14}
            /\ ret.f0 = Hz(300) =>
                  /\ FracEq(overtones[7].hz, Hz(2100))
                  /\ overtones[7].note = "~31c flat of 12-TET"

Bands == {"delta", "theta", "alpha", "beta", "gamma"}

\* beats tried against the drone, in mHz: sung frequency minus f0
SungOffsets ==
    {-60000, -30000, -29000, -12000, -11000, -8000, -7000, -4000, -3000,
     -500, -250, 0, 250, 500, 3000, 4000, 7000, 8000, 11000, 12000, 29000,
     30000, 60000}

\* the frequency a formatted end point of a window denotes
WindowHz(fmt) ==
    Finite(fmt.digits * (CASE fmt.decimals = 0 -> 1000
                           [] fmt.decimals = 1 -> 100
                           [] fmt.decimals = 2 -> 10))

\* s lies strictly inside a window of the band's singRange; the windows of
\* gamma are "below lo" and "above hi"
InsideWindow(s, band, singRange) ==
    IF band = "gamma"
    THEN \/ FracLess(s, WindowHz(singRange[1][1]))
         \/ FracLess(WindowHz(singRange[2][1]), s)
    ELSE \E w \in DOMAIN singRange :
            /\ FracLess(WindowHz(singRange[w][1]), s)
            /\ FracLess(s, WindowHz(singRange[w][2]))

BeatInRange(band, d) ==
    /\ BRAINWAVE_STATES[band].range[1] <= Abs(d)
    /\ Abs(d) <= BRAINWAVE_STATES[band].range[2]

\* C16: for every valid f0 and each band, every sung frequency s inside a
\* window brainwaveMap reports for the band gives a beat |s - f0| in the
\* band's beat range that getBrainwaveState(s - f0) classifies as the band,
\* and no frequency is inside the windows of two bands.
C16_SingWindowsGiveBand ==
    (Returned /\ InRange(ret.f0)) =>
        LET map == ret.value.frameworks.neuroscience.brainwaveMap
            f0mHz == ret.f0.num \div ret.f0.den
        IN  \A d \in SungOffsets :
               f0mHz + d > 0 =>
                  LET s == Finite(f0mHz + d)
                  IN  /\ \A band \in Bands :
                            InsideWindow(s, band, map[band].singRange) =>
                               /\ BeatInRange(band, d)
                               /\ getBrainwaveState(Finite(d)) = band
                      /\ \A b1, b2 \in Bands :
                            /\ InsideWindow(s, b1, map[b1].singRange)
                            /\ InsideWindow(s, b2, map[b2].singRange)
                            => b1 = b2

\* the flat spelling of a pitch class the Pitch Kernel spells with a sharp
Enharmonic(noteName) ==
    CASE noteName = "C#" -> "Db"
      [] noteName = "D#" -> "Eb"
      [] noteName = "F#" -> "Gb"
      [] noteName = "G#" -> "Ab"
      [] noteName = "A#" -> "Bb"
      [] OTHER -> noteName

\* C17: for every valid f0 the key-signature record of the Western analysis
\* is the KEY_SIGNATURES record of the nearest pitch class or of its
\* enharmonic spelling, and the record with 0 sharps and 0 flats is
\* returned only when the nearest pitch class is C.
C17_KeySignatureOfPitchClass ==
    (Returned /\ InRange(ret.f0)) =>
        LET keySignature == ret.value.frameworks.western.keySignature
            record == [sharps |-> keySignature.sharps,
                       flats |-> keySignature.flats]
        IN  /\ \E k \in {keySignature.key, Enharmonic(keySignature.key)}
                            \cap DOMAIN KEY_SIGNATURES :
                  record = KEY_SIGNATURES[k]
            /\ record = [sharps |-> 0, flats |-> 0] => keySignature.key = "C"

\* C18: for every valid f0 the circle-of-fifths position of the nearest
\* pitch class is in 0..11 and different for different pitch classes (the
\* class k semitones above C sits at 7k mod 12), position 0 has no
\* accidentals, a position p in 1..6 has p sharps and a position p in 7..11
\* has 12 - p flats.
C18_CirclePosition ==
    (Returned /\ InRange(ret.f0)) =>
        LET circlePosition == ret.value.frameworks.pythagorean.circlePosition
            p == circlePosition.position
        IN  /\ p \in 0..11
            /\ p = (7 * IndexOf(NOTE_NAMES, circlePosition.note)) % 12
            /\ p = 0 => /\ circlePosition.accidentalType = "none"
                        /\ circlePosition.accidentals = 0
            /\ p \in 1..6 => /\ circlePosition.accidentalType = "sharps"
                             /\ circlePosition.accidentals = p
            /\ p \in 7..11 => /\ circlePosition.accidentalType = "flats"
                              /\ circlePosition.accidentals = 12 - p

\* the mHz in one unit of the last decimal printed
DecimalUnit(decimals) ==
    CASE decimals = 0 -> 1000 [] decimals = 1 -> 100 [] decimals = 2 -> 10

\* C19: formatHz prints 2 decimals when hz < 100, 1 decimal when
\* 100 <= hz < 1000 and none when hz >= 1000, the thresholds being compared
\* with the unrounded input, and the number printed is the input rounded to
\* that many decimals.
C19_FormatHzDecimals ==
    ret.op = "formatHz" =>
        LET hz == ret.hz
            value == ret.value
        IN  /\ JsLess(hz, Hz(100)) => value.decimals = 2
            /\ (JsGeq(hz, Hz(100)) /\ JsLess(hz, Hz(1000))) => value.decimals = 1
            /\ JsGeq(hz, Hz(1000)) => value.decimals = 0
            /\ IsFinite(hz) =>
                  2 * Abs(value.digits * DecimalUnit(value.decimals) * hz.den
                          - hz.num)
                     <= DecimalUnit(value.decimals) * hz.den

\* formatHz(99.999) is "100.00": two decimals although the number printed
\* is not below 100
C19_Witness ==
    /\ ret.op = "formatHz"
    /\ ret.hz = Finite(99999)
    /\ ret.value = [decimals |-> 2, digits |-> 10000]

\* C20: in every reachable state the registry holds exactly the six ids
\* A440, A432, A415, A466, A435 and A444 with a4 = 440, 432, 415, 466, 435
\* and 444, whatever setTuning, getTuning, getA4, compareAcrossTunings,
\* calculatePrism and verifyMath calls were made and whatever a caller wrote
\* to a record getTuning returned.
C20_RegistryFixed ==
    /\ DOMAIN registry = {"A440", "A432", "A415", "A466", "A435", "A444"}
    /\ registry["A440"].a4 = 440
    /\ registry["A432"].a4 = 432
    /\ registry["A415"].a4 = 415
    /\ registry["A466"].a4 = 466
    /\ registry["A435"].a4 = 435
    /\ registry["A444"].a4 = 444

\* a caller wrote 441 to the record getTuning returned for A432, and the
\* registry entry still has 432
C20_Witness ==
    /\ ret.op = "getTuning"
    /\ ret.value.id = "A432"
    /\ ret.value.a4 = 441
    /\ registry["A432"].a4 = 432

\* C21: whatever a consumer wrote to a result it holds, the static tables
\* are unchanged, and a calculatePrism call returns the ragas and the shruti
\* ratios of the tables as they were written, the values every earlier call
\* returned.
C21_ResultsShareNothing ==
    /\ tables.RAGA_SHRUTIS = RAGA_SHRUTIS
    /\ \A i \in DOMAIN SHRUTIS : tables.SHRUTIS_ratio[i] = SHRUTIS[i].ratio
    /\ Returned =>
          LET shruti == ret.value.frameworks.vedic.shruti
          IN  /\ shruti.ragas = RAGA_SHRUTIS
              /\ \A i \in DOMAIN SHRUTIS : shruti.scale[i].ratio = SHRUTIS[i].ratio

\* p is the integer nearest to (f0 - min) / (max - min) * 100
NearestPercent(p, f0, min, max) ==
    LET span == (max - min) * 1000 * f0.den
        above == (f0.num - min * 1000 * f0.den) * 100
    IN  2 * Abs(p * span - above) <= span

\* C22: for every valid f0 the vocal category's positionInRange is an
\* integer in 0..100 and is round((f0 - min) / (max - min) * 100) for the
\* min and max of the VOCAL_CATEGORIES band that contains f0.
C22_PositionInRange ==
    (Returned /\ InRange(ret.f0)) =>
        LET vocalCategory == ret.value.frameworks.western.vocalCategory
            p == vocalCategory.positionInRange
        IN  /\ p \in 0..100
            /\ \E k \in DOMAIN VOCAL_CATEGORIES :
                  /\ JsGeq(ret.f0, Hz(VOCAL_CATEGORIES[k].min))
                  /\ JsLess(ret.f0, Hz(VOCAL_CATEGORIES[k].max))
                  /\ NearestPercent(p, ret.f0, VOCAL_CATEGORIES[k].min,
                                    VOCAL_CATEGORIES[k].max)

\* the MIDI number a note name with octave stands for
MidiOfName(noteName) ==
    12 * (noteName.octave + 1) + IndexOf(NOTE_NAMES, noteName.name)

\* C23: for every valid f0, with n the MIDI number input.nearestPitch
\* names, input.nearestPitchHz is the equal-tempered frequency of n at the
\* current reference rounded to two decimals, f0 is at most half a semitone
\* away from it (n is the integer nearest to the continuous MIDI value of
\* f0), and input.cents is that deviation rounded, in -50..50.
C23_NearestPitchConsistent ==
    (Returned /\ InRange(ret.f0)) =>
        LET input == ret.value.input
            n == MidiOfName(input.nearestPitch)
            standard == midiToFreq(MidiInt(n), A4_FREQ)
            deviation == centsDifference(ret.f0, standard)
        IN  /\ input.nearestPitchHz = RoundCenti(standard)
            /\ Abs(deviation.num) <= 50 * deviation.den
            /\ input.cents = RoundCents(deviation)
            /\ input.cents \in -50..50

\* 60 Hz at A440 is 49 cents below B1 (61.74 Hz)
C23_Witness ==
    /\ Returned
    /\ ret.f0 = Hz(60)
    /\ A4_FREQ = 440
    /\ ret.value.input.nearestPitch = [name |-> "B", octave |-> 1]
    /\ ret.value.input.nearestPitchHz = 6174
    /\ ret.value.input.cents = -49

\* C24: the raga table a result carries has exactly 5 ragas, and the shruti
\* list of each holds 8 strictly increasing positions, each the position of
\* an entry of the result's shruti scale and in 1..23, the first 1 (Sa), the
\* last 23 (Sa') and one of them 14 (Pa).
C24_RagaTable ==
    Returned =>
        LET shruti == ret.value.frameworks.vedic.shruti
            ragas == shruti.ragas
        IN  /\ Cardinality(DOMAIN ragas) = 5
            /\ \A r \in DOMAIN ragas :
                  /\ Len(ragas[r]) = 8
                  /\ \A k \in 1..7 : ragas[r][k] < ragas[r][k + 1]
                  /\ \A k \in 1..8 :
                        /\ ragas[r][k] \in 1..23
                        /\ \E i \in DOMAIN shruti.scale :
                              shruti.scale[i].shruti = ragas[r][k]
                  /\ ragas[r][1] = 1
                  /\ ragas[r][8] = 23
                  /\ \E k \in 1..8 : ragas[r][k] = 14

\* a result with the shruti list of Todi
C24_Witness ==
    /\ Returned
    /\ ret.f0 = Hz(240)
    /\ ret.value.frameworks.vedic.shruti.ragas["todi"]
          = <<1, 3, 7, 12, 14, 16, 21, 23>>
    /\ Len(ret.value.frameworks.vedic.shruti.scale) = 23

\* C25: in every result the shruti entries at the positions of raga Bilawal
\* have, in order, the ratios of the eight degrees of the scale, which are
\* 1:1, 9:8, 5:4, 4:3, 3:2, 5:3, 15:8, 2:1 and the ratios of the
\* SHUDDH_SCALE entries of JUST_INTONATION_RATIOS.
C25_BilawalIsJustScale ==
    Returned =>
        LET shruti == ret.value.frameworks.vedic.shruti
            bilawal == shruti.ragas["bilawal"]
            scale == ret.value.scale
        IN  /\ Len(bilawal) = Len(scale)
            /\ Len(scale) = Len(SHUDDH_SCALE)
            /\ \A k \in DOMAIN scale :
                  /\ \E i \in DOMAIN shruti.scale :
                        /\ shruti.scale[i].shruti = bilawal[k]
                        /\ shruti.scale[i].ratio = scale[k].ratio
                  /\ scale[k].ratio = JUST_INTONATION_RATIOS[SHUDDH_SCALE[k]].ratio
            /\ [k \in DOMAIN scale |-> scale[k].ratio]
                  = << <<1, 1>>, <<9, 8>>, <<5, 4>>, <<4, 3>>, <<3, 2>>, <<5, 3>>,
                       <<15, 8>>, <<2, 1>> >>

\* a result whose seventh degree and shruti 21 both have the ratio 15:8
C25_Witness ==
    /\ Returned
    /\ ret.f0 = Hz(256)
    /\ ret.value.scale[7].ratio = <<15, 8>>
    /\ ret.value.frameworks.vedic.shruti.ragas["bilawal"][7] = 21
    /\ ret.value.frameworks.vedic.shruti.scale[21].ratio = <<15, 8>>

\* C26: for every valid f0 the accidentals of the circle-of-fifths position
\* are those of the Western key signature: type "sharps" with the
\* signature's number of sharps and no flats, type "flats" with its number
\* of flats and no sharps, or type "none" with 0 sharps and 0 flats.
C26_KeyAgreement ==
    (Returned /\ InRange(ret.f0)) =>
        LET circlePosition == ret.value.frameworks.pythagorean.circlePosition
            keySignature == ret.value.frameworks.western.keySignature
        IN  CASE circlePosition.accidentalType = "sharps" ->
                    /\ keySignature.sharps = circlePosition.accidentals
                    /\ keySignature.flats = 0
              [] circlePosition.accidentalType = "flats" ->
                    /\ keySignature.flats = circlePosition.accidentals
                    /\ keySignature.sharps = 0
              [] OTHER ->
                    /\ circlePosition.accidentals = 0
                    /\ keySignature.sharps = 0
                    /\ keySignature.flats = 0

\* the current tuning id is one of the six registered ids and A4_FREQ is
\* the a4 of that standard
CurrentIsRegistered ==
    /\ currentTuning \in {"A440", "A432", "A415", "A466", "A435", "A444"}
    /\ A4_FREQ = CASE currentTuning = "A440" -> 440
                   [] currentTuning = "A432" -> 432
                   [] currentTuning = "A415" -> 415
                   [] currentTuning = "A466" -> 466
                   [] currentTuning = "A435" -> 435
                   [] currentTuning = "A444" -> 444

\* a setTuning call with an id outside the six leaves the id and A4_FREQ
UnregisteredIgnored ==
    (ret'.op = "setTuning"
        /\ ret'.tuningId \notin {"A440", "A432", "A415", "A466", "A435", "A444"})
    => UNCHANGED <<currentTuning, A4_FREQ>>

\* C27: after any sequence of setTuning calls the current tuning id is one
\* of the six registered ids and A4_FREQ is that standard's a4, and a call
\* with an unregistered id leaves both unchanged.
C27_TuningStaysRegistered ==
    [](CurrentIsRegistered) /\ [][UnregisteredIgnored]_vars

\* the entry of a comparison for a standard with reference a4: the note
\* name tuning.js gives freq at a4, a nearest frequency at most half a
\* semitone from freq, and the deviation from it rounded
EntryFor(entry, freq, a4) ==
    /\ entry.a4 = a4
    /\ entry.name = tuning_freqToNoteName(freq, a4)
    /\ IF freq.kind = "NaN"
       THEN entry.nearestHz = NaN /\ entry.cents = NaN
       ELSE LET deviation == centsDifference(freq, entry.nearestHz)
            IN  /\ Abs(deviation.num) <= 50 * deviation.den
                /\ entry.cents = RoundCents(deviation)

ComparisonPerStandard ==
    ret.op = "compareAcrossTunings" =>
        /\ DOMAIN ret.value = {"A440", "A432", "A415", "A466", "A435", "A444"}
        /\ EntryFor(ret.value["A440"], ret.freq, 440)
        /\ EntryFor(ret.value["A432"], ret.freq, 432)
        /\ EntryFor(ret.value["A415"], ret.freq, 415)
        /\ EntryFor(ret.value["A466"], ret.freq, 466)
        /\ EntryFor(ret.value["A435"], ret.freq, 435)
        /\ EntryFor(ret.value["A444"], ret.freq, 444)

\* two compareAcrossTunings calls with the same freq, an earlier one kept
\* and the one just made
SameComparison ==
    /\ seen # NoCall
    /\ seen.call.op = "compareAcrossTunings"
    /\ ret.op = "compareAcrossTunings"
    /\ ret.freq = seen.call.freq

ComparisonLeavesTuning ==
    ret'.op = "compareAcrossTunings" => UNCHANGED <<currentTuning, A4_FREQ>>

\* C28: compareAcrossTunings(freq) returns one entry for each of the six
\* standards, computed with that standard's a4; two calls with the same freq
\* return the same value whatever tuning is current at each; and a call
\* leaves the current tuning id and A4_FREQ unchanged.
C28_CompareAcrossTunings ==
    /\ [](ComparisonPerStandard)
    /\ [](SameComparison => ret.value = seen.call.value)
    /\ [][ComparisonLeavesTuning]_vars

\* 440 Hz compared once under A440 and once under A432: A4 in A440 and, 32
\* cents sharp, in A432
C28_Witness ==
    /\ SameComparison
    /\ seen.tuning = "A440"
    /\ currentTuning = "A432"
    /\ ret.freq = Hz(440)
    /\ ret.value["A432"].name = [name |-> "A", octave |-> 4]
    /\ ret.value["A432"].cents = 32
    /\ ret.value["A440"].cents = 0

\* the contexts the module has created on which close() was not called
OpenContexts == {ctx \in DOMAIN contexts : ~contexts[ctx].closeCalled}

\* no context but the one the module holds is open
OnlyHeldIsOpen == OpenContexts \subseteq {sharedAudioContext}

\* a step that creates a context starts with no context held or closes the
\* context that was held, and the module holds the new context after it
CreatedWhenFree ==
    Len(contexts') > Len(contexts)
    => /\ Len(contexts') = Len(contexts) + 1
       /\ sharedAudioContext' = Len(contexts')
       /\ \/ sharedAudioContext = NoContext
          \/ contexts'[sharedAudioContext].closeCalled

\* C29: under any interleaving of warmupAudio, getAudioContext, forceUnlock,
\* unlockAudioSync and closeAudioContext, with the waits of the async calls
\* and the state changes of the contexts between them, at most one context
\* created by the module is open (close() not called on it) at any time, and
\* it is the one the module holds; a context is created only when none is
\* held or in the step that closes and releases the one held
C29_AtMostOneContext == [](OnlyHeldIsOpen) /\ [][CreatedWhenFree]_vars

\* on mobile a second context has replaced the first, which is closed, while
\* a forceUnlock call still works on the first and a getAudioContext call on
\* the second
C29_Witness ==
    /\ platform.isMobile
    /\ Len(contexts) = 2
    /\ contexts[1].closeCalled
    /\ ~contexts[2].closeCalled
    /\ sharedAudioContext = 2
    /\ \E p, q \in Callers :
          /\ calls[p].op = "forceUnlock"
          /\ calls[p].pc = "wait"
          /\ calls[p].ctx = 1
          /\ calls[q].op = "getAudioContext"
          /\ calls[q].pc = "wait"
          /\ calls[q].ctx = 2

\* the step in which the forceUnlock call of caller p returns v
ForceUnlockResolves(p, v) ==
    /\ calls[p].pc # "done"
    /\ calls'[p].pc = "done"
    /\ calls'[p].op = "forceUnlock"
    /\ calls'[p].value = v

\* when a forceUnlock call returns true, isAudioReady() is true
TrueMeansReady ==
    \A p \in Callers :
        ForceUnlockResolves(p, TRUE)
        => isAudioReady' = [type |-> "boolean", value |-> TRUE]

\* when a forceUnlock call returns false, the context it worked on is not
\* running
FalseMeansNotRunning ==
    \A p \in Callers :
        (ForceUnlockResolves(p, FALSE) /\ calls'[p].ctx # NoContext)
        => contexts'[calls'[p].ctx].state # "running"

\* C30: whenever a forceUnlock call resolves to true, isAudioReady() is true
\* at that moment, under any interleaving of its waits with closeAudioContext
\* and unlockAudioSync calls and with state changes of the context; and when
\* it resolves to false the context it worked on is not running
C30_ForceUnlockResult == [][TrueMeansReady /\ FalseMeansNotRunning]_vars
====
